---- MODULE Spec2Model ----
(***************************************************************************)
(* Model of email_summary/email_llm_processor.py: the rate-limited LLM     *)
(* client (EmailLLMProcessor), its response parser, its reader of the      *)
(* extracted file, its prompt and its report; and of the writer of the     *)
(* extracted file in email_summary/create_combined_summary.py; and of the  *)
(* workflow of email_summary/main.py.                                      *)
(*                                                                         *)
(* Time is the value of time.time() in whole seconds.  Text is a sequence  *)
(* of one-character strings.  None is the string "None".                   *)
(***************************************************************************)
EXTENDS Integers, Sequences, FiniteSets, TLC

VARIABLES
    client,         \* the EmailLLMProcessor object: api_key, provider, usage_tracker
    now,            \* time.time()
    pc,             \* position of the one call of process_emails_from_file in flight
    extracted_file, \* the file of extracted emails: its records and the length of
                    \* the prompt built from them
    emails,         \* the records parsed by _parse_extracted_file for this call
    prompt_len,     \* len(batch_prompt) of this call
    raw_text,       \* the text handed to _parse_batch_response
    status,         \* the provider's answer to the request of this call, or "None"
    error,          \* the exception raised inside the try block of this call, or "None"
    returned,       \* what process_emails_from_file returned last
    http_requests,  \* requests.post calls issued by this call
    admitted,       \* _check_rate_limits returned normally in this call
    admit_log,      \* times of the admissions of the trailing window (60 seconds
                    \* where the minute limit is observed, none elsewhere)
    admits_24h,     \* number of admissions of the trailing 24 hours
    send_end,       \* time the previous send ended (response received), or -1
    send_start,     \* time the HTTP request of this call was issued, or -1
    failures,       \* responses other than a well-formed 2xx served so far
    ticks,          \* clock steps taken by the environment so far
    day_jumps,      \* whole days the environment let pass so far
    stage,          \* position of the document pipeline: extraction, parsing,
                    \* prompt building, report rendering
    inbox,          \* the messages loaded by extract_emails_from_professional_file
    content,        \* the text of the extracted file
    file_emails,    \* the records _parse_extracted_file returned
    prompt,         \* the text _create_batch_analysis_prompt returned
    results,        \* the analysis result handed to generate_summary_report
    report,         \* what generate_summary_report returned last
    previous_report, \* what generate_summary_report returned the time before
    main_pc,        \* position of main() of main.py
    files,          \* the files of the working directory main() looks for
    console,        \* the steps main() has announced so far, in order
    failed_commands \* the steps whose command raised CalledProcessError

vars == <<client, now, pc, extracted_file, emails, prompt_len, raw_text, status, error, returned,
          http_requests, admitted, admit_log, admits_24h, send_end, send_start,
          failures, ticks, day_jumps,
         stage, inbox, content, file_emails, prompt, results, report,
         previous_report, main_pc, files, console, failed_commands>>

\* the variables of the workflow of main.py
main_vars == <<main_pc, files, console, failed_commands>>

\* the variables of the document pipeline
doc_vars == <<stage, inbox, content, file_emails, prompt, results, report, previous_report>>

\* the variables of the client and its call
call_vars == <<client, now, pc, extracted_file, emails, prompt_len, raw_text, status, error,
               returned, http_requests, admitted, admit_log, admits_24h, send_end,
               send_start, failures, ticks, day_jumps>>

-----------------------------------------------------------------------------
(* Bounds of the model *)

ClockStart == 100
MaxTime == 70
MaxTicks == 1
MaxFailures == 1
MaxDayJumps == 1

-----------------------------------------------------------------------------
(* rate_limits['google'] and the literals of _check_rate_limits *)

requests_per_minute == 15
tokens_per_minute == 250000
requests_per_day == 1000
min_delay_between_requests == 4
minute_seconds == 60
day_seconds == 24 * 60 * minute_seconds

None == "None"

Providers == {"openai", "anthropic", "google", "local"}
Credentials == {None, "", "key"}
ShortPrompt == 400
LongPrompt == 800000

\* Python truthiness of a credential: None and "" are falsy
Falsy(x) == x \in {None, ""}

-----------------------------------------------------------------------------
(* EmailLLMProcessor.__init__ *)

__init__(api_key, env_key, provider, t) ==
    [ status |-> "constructed",
      api_key |-> IF Falsy(api_key) THEN env_key ELSE api_key,
      provider |-> provider,
      usage_tracker |->
        [ requests_this_minute |-> 0,
          tokens_this_minute |-> 0,
          requests_today |-> 0,
          last_request_time |-> 0,
          minute_start_time |-> t ] ]

-----------------------------------------------------------------------------
(* EmailLLMProcessor._check_rate_limits *)

MinuteElapsed(u, current_time) ==
    current_time - u.minute_start_time >= minute_seconds

\* a faulty variant of ResetMinute: the count of the day is zeroed as well
ResetMinuteAndDay(u, t) ==
    [u EXCEPT !.requests_this_minute = 0,
              !.tokens_this_minute = 0,
              !.requests_today = 0,
              !.minute_start_time = t]

ResetMinute(u, t) ==
    [u EXCEPT !.requests_this_minute = 0,
              !.tokens_this_minute = 0,
              !.minute_start_time = t]

\* a faulty variant of ResetTokens: the window restarts with its tokens kept
ResetTokensKeepingCount(u, t) == [u EXCEPT !.minute_start_time = t]

ResetTokens(u, t) ==
    [u EXCEPT !.tokens_this_minute = 0,
              !.minute_start_time = t]

\* a faulty variant of DailyLimitReached: the limit compared with >, which
\* lets one request too many through
DailyLimitExceeded(u) == u.requests_today > requests_per_day

DailyLimitReached(u) ==
    u.requests_today >= requests_per_day

\* a faulty variant of RequestLimitReached: the limit compared with >
RequestLimitExceeded(u) == u.requests_this_minute > requests_per_minute

RequestLimitReached(u) ==
    u.requests_this_minute >= requests_per_minute

TokenLimitReached(u) ==
    u.tokens_this_minute >= tokens_per_minute

\* a faulty variant of WindowWait: the elapsed part of the window is added
WindowWaitPlusElapsed(u, current_time) ==
    minute_seconds + (current_time - u.minute_start_time)

WindowWait(u, current_time) ==
    minute_seconds - (current_time - u.minute_start_time)

DelayWait(u, current_time) ==
    min_delay_between_requests - (current_time - u.last_request_time)

\* The whole function, sleeps included: the tracker and the clock it leaves,
\* and whether it raised the daily-limit exception.
_check_rate_limits(u, t) ==
    LET current_time == t
        u1 == IF MinuteElapsed(u, current_time) THEN ResetMinute(u, current_time) ELSE u
    IN  IF DailyLimitReached(u1)
        THEN [raised |-> TRUE, tracker |-> u1, clock |-> t]
        ELSE
          LET s1 == RequestLimitReached(u1) /\ WindowWait(u1, current_time) > 0
              t1 == IF s1 THEN t + WindowWait(u1, current_time) ELSE t
              u2 == IF s1 THEN ResetMinute(u1, t1) ELSE u1
              s2 == TokenLimitReached(u2) /\ WindowWait(u2, current_time) > 0
              t2 == IF s2 THEN t1 + WindowWait(u2, current_time) ELSE t1
              u3 == IF s2 THEN ResetTokens(u2, t2) ELSE u2
              s3 == DelayWait(u3, current_time) > 0
              t3 == IF s3 THEN t2 + DelayWait(u3, current_time) ELSE t2
          IN  [raised |-> FALSE, tracker |-> u3, clock |-> t3]

(* EmailLLMProcessor._update_usage_tracker *)

\* a faulty variant of _update_usage_tracker: the tokens are subtracted
UpdateSubtractingTokens(u, tokens_used, t) ==
    [u EXCEPT !.requests_this_minute = @ + 1,
              !.tokens_this_minute = @ - tokens_used,
              !.requests_today = @ + 1,
              !.last_request_time = t]

_update_usage_tracker(u, tokens_used, t) ==
    [u EXCEPT !.requests_this_minute = @ + 1,
              !.tokens_this_minute = @ + tokens_used,
              !.requests_today = @ + 1,
              !.last_request_time = t]

\* estimated_tokens = len(prompt) // 4
\* a faulty variant of EstimatedTokens: one token for every character
EstimatedTokensPerCharacter(n) == n

EstimatedTokens(n) == n \div 4

-----------------------------------------------------------------------------
(* History kept for the properties *)

\* the admissions of log that fall in the window seconds ending at t
Prune(log, t, window) == SelectSeq(log, LAMBDA a : a > t - window)

-----------------------------------------------------------------------------
(* Python text operations used by the parser (offsets are 0-based, as in   *)
(* Python; find returns -1 when there is no occurrence)                     *)

K_comprehensive_summary == <<"c", "o", "m", "p", "r", "e", "h", "e", "n", "s", "i", "v", "e", "_", "s", "u", "m", "m", "a", "r", "y">>
K_high_priority_emails == <<"h", "i", "g", "h", "_", "p", "r", "i", "o", "r", "i", "t", "y", "_", "e", "m", "a", "i", "l", "s">>
K_action_items == <<"a", "c", "t", "i", "o", "n", "_", "i", "t", "e", "m", "s">>
K_email_categories == <<"e", "m", "a", "i", "l", "_", "c", "a", "t", "e", "g", "o", "r", "i", "e", "s">>
K_processing_notes == <<"p", "r", "o", "c", "e", "s", "s", "i", "n", "g", "_", "n", "o", "t", "e", "s">>
QuotedKey == <<"\"", "c", "o", "m", "p", "r", "e", "h", "e", "n", "s", "i", "v", "e", "_", "s", "u", "m", "m", "a", "r", "y", "\"">>
\* the backquote character (a TLA+ string cannot hold it)
Backquote == "BACKQUOTE"
FenceJson == <<Backquote, Backquote, Backquote, "j", "s", "o", "n">>
Fence == <<Backquote, Backquote, Backquote>>
Ellipsis == <<".", ".", ".">>
NoSummaryGenerated == <<"N", "o", " ", "s", "u", "m", "m", "a", "r", "y", " ", "g", "e", "n", "e", "r", "a", "t", "e", "d">>
ResponseParsingFailed == <<"R", "e", "s", "p", "o", "n", "s", "e", " ", "p", "a", "r", "s", "i", "n", "g", " ", "f", "a", "i", "l", "e", "d">>
JsonErrorPrefix == <<"J", "S", "O", "N", " ", "p", "a", "r", "s", "i", "n", "g", " ", "e", "r", "r", "o", "r", ":", " ">>
JsonErrorSuffix == <<".", " ", "U", "s", "i", "n", "g", " ", "e", "x", "t", "r", "a", "c", "t", "e", "d", " ", "s", "u", "m", "m", "a", "r", "y", " ", "i", "n", "s", "t", "e", "a", "d", ".">>

CharAt(s, i) == IF i >= 1 /\ i <= Len(s) THEN s[i] ELSE ""

StartsWith(s, i, w) ==
    /\ i >= 1
    /\ i + Len(w) - 1 <= Len(s)
    /\ \A k \in 1..Len(w) : s[i + k - 1] = w[k]

\* s[a:b] for 0 <= a, 0 <= b
Slice(s, a, b) ==
    LET hi == IF b < Len(s) THEN b ELSE Len(s)
    IN  IF a >= hi THEN <<>> ELSE SubSeq(s, a + 1, hi)

\* the offsets at which w occurs in s
Occurrences(s, w) == {a \in 0..(Len(s) - Len(w)) : StartsWith(s, a + 1, w)}

\* the lowest and the highest of a set of offsets, -1 when there is none
Lowest(hits) == IF hits = {} THEN -1 ELSE CHOOSE a \in hits : \A b \in hits : a <= b
Highest(hits) == IF hits = {} THEN -1 ELSE CHOOSE a \in hits : \A b \in hits : a >= b

\* s.find(w, start)
find(s, w, start) == Lowest({a \in Occurrences(s, w) : a >= start})

\* s.rfind(w)
rfind(s, w) == Highest(Occurrences(s, w))

\* w in s
Contains(s, w) == find(s, w, 0) # -1

\* s.replace(w, ''): the non-overlapping occurrences, left to right
RECURSIVE remove_all(_, _)
RemoveFrom(s, w, at) ==
    IF at = -1 THEN s
    ELSE Slice(s, 0, at) \o remove_all(Slice(s, at + Len(w), Len(s)), w)

remove_all(s, w) == RemoveFrom(s, w, find(s, w, 0))

IsSpace(c) == c \in {" ", "\n", "\t", "\r"}

\* s.strip()
Between(s, keep) == IF keep = {} THEN <<>> ELSE SubSeq(s, Lowest(keep), Highest(keep))

strip(s) == Between(s, {i \in 1..Len(s) : ~IsSpace(s[i])})

-----------------------------------------------------------------------------
(* Python values: a tag and a sequence *)

PyNone == [t |-> "None", v |-> <<>>]
PyStr(s) == [t |-> "str", v |-> s]
PyNumber(s) == [t |-> "number", v |-> s]
PyBool(s) == [t |-> "bool", v |-> s]
PyList(xs) == [t |-> "list", v |-> xs]
\* a dict is the sequence of its items <<key text, value>> in insertion order
PyDict(items) == [t |-> "dict", v |-> items]

RECURSIVE DictSet(_, _, _)
DictSet(items, key, val) ==
    IF items = <<>> THEN << <<key, val>> >>
    ELSE IF items[1][1] = key THEN << <<key, val>> >> \o Tail(items)
    ELSE <<items[1]>> \o DictSet(Tail(items), key, val)

HasKey(d, key) == \E i \in 1..Len(d.v) : d.v[i][1] = key

\* a faulty variant of Get: d.get(key), the default is not used
GetWithoutDefault(d, key, default) ==
    IF HasKey(d, key)
    THEN d.v[CHOOSE i \in 1..Len(d.v) : d.v[i][1] = key][2]
    ELSE PyNone

\* d.get(key, default)
Get(d, key, default) ==
    IF HasKey(d, key)
    THEN d.v[CHOOSE i \in 1..Len(d.v) : d.v[i][1] = key][2]
    ELSE default

-----------------------------------------------------------------------------
(* json.loads, as line 199 uses it.  A result is the decoded value and the  *)
(* position after it, or the exception: JSONDecodeError with its message    *)
(* (the line/column suffix of the message is left out), or RecursionError   *)
(* when containers nest deeper than the interpreter allows.                 *)

\* containers json.loads descends into before the interpreter's recursion
\* limit ends the decoding (scaled down from CPython's)
MaxNesting == 3

MsgExpectingValue == <<"E", "x", "p", "e", "c", "t", "i", "n", "g", " ", "v", "a", "l", "u", "e">>
MsgExpectingName == <<"E", "x", "p", "e", "c", "t", "i", "n", "g", " ", "p", "r", "o", "p", "e", "r", "t", "y", " ", "n", "a", "m", "e", " ", "e", "n", "c", "l", "o", "s", "e", "d", " ", "i", "n", " ", "d", "o", "u", "b", "l", "e", " ", "q", "u", "o", "t", "e", "s">>
MsgExpectingColon == <<"E", "x", "p", "e", "c", "t", "i", "n", "g", " ", "'", ":", "'", " ", "d", "e", "l", "i", "m", "i", "t", "e", "r">>
MsgExpectingComma == <<"E", "x", "p", "e", "c", "t", "i", "n", "g", " ", "'", ",", "'", " ", "d", "e", "l", "i", "m", "i", "t", "e", "r">>
MsgExtraData == <<"E", "x", "t", "r", "a", " ", "d", "a", "t", "a">>
MsgUnterminated == <<"U", "n", "t", "e", "r", "m", "i", "n", "a", "t", "e", "d", " ", "s", "t", "r", "i", "n", "g", " ", "s", "t", "a", "r", "t", "i", "n", "g", " ", "a", "t">>
MsgControlChar == <<"I", "n", "v", "a", "l", "i", "d", " ", "c", "o", "n", "t", "r", "o", "l", " ", "c", "h", "a", "r", "a", "c", "t", "e", "r", " ", "a", "t">>
MsgInvalidEscape == <<"I", "n", "v", "a", "l", "i", "d", " ", "\\", "e", "s", "c", "a", "p", "e">>
MsgInvalidUEscape == <<"I", "n", "v", "a", "l", "i", "d", " ", "\\", "u", "X", "X", "X", "X", " ", "e", "s", "c", "a", "p", "e">>

JsonOk(val, pos) == [err |-> None, msg |-> <<>>, val |-> val, pos |-> pos]
\* JSONDecodeError(msg, doc, at): at is the offset of the error, from 0
JsonFail(msg, at) == [err |-> "JSONDecodeError", msg |-> msg, val |-> PyNone, pos |-> at]
JsonTooDeep == [err |-> "RecursionError", msg |-> <<>>, val |-> PyNone, pos |-> 0]

Digits == {"0", "1", "2", "3", "4", "5", "6", "7", "8", "9"}
HexDigits == Digits \cup {"a", "b", "c", "d", "e", "f", "A", "B", "C", "D", "E", "F"}
ControlChars == {"\n", "\t", "\r"}

\* the character a backslash escape stands for
Unescape(c) ==
    CASE c = "n" -> "\n"
      [] c = "t" -> "\t"
      [] c = "r" -> "\r"
      [] c = "b" -> "\\b"
      [] c = "f" -> "\\f"
      [] OTHER -> c

RECURSIVE SkipWs(_, _)
SkipWs(s, i) == IF IsSpace(CharAt(s, i)) THEN SkipWs(s, i + 1) ELSE i

RECURSIVE SkipDigits(_, _)
SkipDigits(s, i) == IF CharAt(s, i) \in Digits THEN SkipDigits(s, i + 1) ELSE i

\* the text after the opening quote at begin, read from i on.  A \uXXXX
\* escape decodes to the one placeholder character "\\u".
RECURSIVE ScanString(_, _, _, _)
ScanString(s, begin, i, acc) ==
    LET c == CharAt(s, i)
        e == CharAt(s, i + 1)
    IN  IF c = "" THEN JsonFail(MsgUnterminated, begin - 1)
        ELSE IF c = "\"" THEN JsonOk(PyStr(acc), i + 1)
        ELSE IF c \in ControlChars THEN JsonFail(MsgControlChar, i - 1)
        ELSE IF c # "\\" THEN ScanString(s, begin, i + 1, Append(acc, c))
        ELSE IF e = "" THEN JsonFail(MsgUnterminated, begin - 1)
        ELSE IF e = "u"
             THEN IF \A k \in 2..5 : CharAt(s, i + k) \in HexDigits
                  THEN ScanString(s, begin, i + 6, Append(acc, "\\u"))
                  ELSE JsonFail(MsgInvalidUEscape, i)
        ELSE IF e \in {"\"", "\\", "/", "b", "f", "n", "r", "t"}
             THEN ScanString(s, begin, i + 2, Append(acc, Unescape(e)))
        ELSE JsonFail(MsgInvalidEscape, i - 1)

\* NUMBER_RE at i: the position after the longest match, or i when none
\* ([eE][-+]?\d+)? at j2, its digits at k
ExponentEnd(s, j2, k) ==
    IF CharAt(s, j2) \in {"e", "E"} /\ CharAt(s, k) \in Digits
    THEN SkipDigits(s, k + 1) ELSE j2

\* (\.\d+)? at j1, then the exponent
FractionEnd(s, j1) ==
    IF CharAt(s, j1) = "." /\ CharAt(s, j1 + 1) \in Digits
    THEN SkipDigits(s, j1 + 2) ELSE j1

ExponentDigits(s, j2) == IF CharAt(s, j2 + 1) \in {"+", "-"} THEN j2 + 2 ELSE j2 + 1

\* (0|[1-9]\d*) at j0: the position after it, or i when there is no digit
IntegerEnd(s, i, j0) ==
    IF CharAt(s, j0) = "0" THEN j0 + 1
    ELSE IF CharAt(s, j0) \in Digits THEN SkipDigits(s, j0 + 1)
    ELSE i

AfterFraction(s, j2) == ExponentEnd(s, j2, ExponentDigits(s, j2))

AfterInteger(s, i, j1) == IF j1 = i THEN i ELSE AfterFraction(s, FractionEnd(s, j1))

NumberEnd(s, i) ==
    AfterInteger(s, i, IntegerEnd(s, i, IF CharAt(s, i) = "-" THEN i + 1 ELSE i))

Word(w) ==
    CASE w = "null" -> <<"n", "u", "l", "l">>
      [] w = "true" -> <<"t", "r", "u", "e">>
      [] w = "false" -> <<"f", "a", "l", "s", "e">>
      [] w = "NaN" -> <<"N", "a", "N">>
      [] w = "Infinity" -> <<"I", "n", "f", "i", "n", "i", "t", "y">>
      [] w = "-Infinity" -> <<"-", "I", "n", "f", "i", "n", "i", "t", "y">>

RECURSIVE ParseValue(_, _, _)
RECURSIVE ParseElements(_, _, _, _)
RECURSIVE ParseMembers(_, _, _, _)

\* scan_once at position i, with depth containers open around it
\* a literal or a number at i, n being the end of the number there
ParseScalar(s, i, n) ==
    IF StartsWith(s, i, Word("null")) THEN JsonOk(PyNone, i + 4)
    ELSE IF StartsWith(s, i, Word("true")) THEN JsonOk(PyBool(Word("true")), i + 4)
    ELSE IF StartsWith(s, i, Word("false")) THEN JsonOk(PyBool(Word("false")), i + 5)
    ELSE IF n # i THEN JsonOk(PyNumber(SubSeq(s, i, n - 1)), n)
    ELSE IF StartsWith(s, i, Word("NaN")) THEN JsonOk(PyNumber(Word("NaN")), i + 3)
    ELSE IF StartsWith(s, i, Word("Infinity"))
         THEN JsonOk(PyNumber(Word("Infinity")), i + 8)
    ELSE IF StartsWith(s, i, Word("-Infinity"))
         THEN JsonOk(PyNumber(Word("-Infinity")), i + 9)
    ELSE JsonFail(MsgExpectingValue, i - 1)

\* a container opened by c at i; j is the position of what follows the opener
ParseContainer(s, c, j, depth) ==
    IF depth >= MaxNesting THEN JsonTooDeep
    ELSE IF c = "{"
         THEN IF CharAt(s, j) = "}" THEN JsonOk(PyDict(<<>>), j + 1)
              ELSE ParseMembers(s, j, depth + 1, <<>>)
         ELSE IF CharAt(s, j) = "]" THEN JsonOk(PyList(<<>>), j + 1)
              ELSE ParseElements(s, j, depth + 1, <<>>)

ParseAt(s, i, depth, c) ==
    IF c = "\"" THEN ScanString(s, i, i + 1, <<>>)
    ELSE IF c \in {"{", "["} THEN ParseContainer(s, c, SkipWs(s, i + 1), depth)
    ELSE ParseScalar(s, i, NumberEnd(s, i))

ParseValue(s, i, depth) == ParseAt(s, i, depth, CharAt(s, i))

\* after the element r of an array: j is the position of what follows it
NextElement(s, depth, acc, r, j) ==
    IF CharAt(s, j) = "]" THEN JsonOk(PyList(Append(acc, r.val)), j + 1)
    ELSE IF CharAt(s, j) = ","
         THEN ParseElements(s, SkipWs(s, j + 1), depth, Append(acc, r.val))
    ELSE JsonFail(MsgExpectingComma, j - 1)

AfterElement(s, depth, acc, r) ==
    IF r.err # None THEN r ELSE NextElement(s, depth, acc, r, SkipWs(s, r.pos))

\* the elements of an array from the value at i on
ParseElements(s, i, depth, acc) == AfterElement(s, depth, acc, ParseValue(s, i, depth))

\* after the member k: r of an object: e is the position of what follows it
NextMember(s, depth, items, e) ==
    IF CharAt(s, e) = "}" THEN JsonOk(PyDict(items), e + 1)
    ELSE IF CharAt(s, e) = "," THEN ParseMembers(s, SkipWs(s, e + 1), depth, items)
    ELSE JsonFail(MsgExpectingComma, e - 1)

AfterMemberValue(s, depth, acc, k, r) ==
    IF r.err # None THEN r
    ELSE NextMember(s, depth, DictSet(acc, k.val.v, r.val), SkipWs(s, r.pos))

MemberValue(s, depth, acc, k, j) ==
    IF CharAt(s, j) # ":" THEN JsonFail(MsgExpectingColon, j - 1)
    ELSE AfterMemberValue(s, depth, acc, k, ParseValue(s, SkipWs(s, j + 1), depth))

AfterMemberKey(s, depth, acc, k) ==
    IF k.err # None THEN k ELSE MemberValue(s, depth, acc, k, SkipWs(s, k.pos))

\* the members of an object from the key at i on; a repeated key keeps its
\* last value
ParseMembers(s, i, depth, acc) ==
    IF CharAt(s, i) # "\"" THEN JsonFail(MsgExpectingName, i - 1)
    ELSE AfterMemberKey(s, depth, acc, ScanString(s, i, i + 1, <<>>))

\* the end of json.loads: nothing but white space may follow the value
EndOfDocument(s, r) ==
    IF r.err # None THEN r
    ELSE IF SkipWs(s, r.pos) <= Len(s) THEN JsonFail(MsgExtraData, SkipWs(s, r.pos) - 1)
    ELSE r

\* json.loads(s)
json_loads(s) == EndOfDocument(s, ParseValue(s, SkipWs(s, 1), 0))

-----------------------------------------------------------------------------
(* EmailLLMProcessor._parse_batch_response *)

K_total_emails == <<"t", "o", "t", "a", "l", "_", "e", "m", "a", "i", "l", "s">>
K_analysis_timestamp == <<"a", "n", "a", "l", "y", "s", "i", "s", "_", "t", "i", "m", "e", "s", "t", "a", "m", "p">>
K_raw_emails == <<"r", "a", "w", "_", "e", "m", "a", "i", "l", "s">>
K_title == <<"t", "i", "t", "l", "e">>
K_sender == <<"s", "e", "n", "d", "e", "r">>
K_date == <<"d", "a", "t", "e">>
K_text == <<"t", "e", "x", "t">>

\* s[:n] + '...' if len(s) > n else s
Truncate(s, n) == IF Len(s) > n THEN Slice(s, 0, n) \o Ellipsis ELSE s

\* the dict of the fallback branches (lines 203-209, 233-239, 249-255)
FallbackDict(summary, notes) ==
    PyDict(<< <<K_comprehensive_summary, PyStr(summary)>>,
              <<K_high_priority_emails, PyList(<<>>)>>,
              <<K_action_items, PyList(<<>>)>>,
              <<K_email_categories, PyDict(<<>>)>>,
              <<K_processing_notes, PyStr(notes)>> >>)

\* lines 187-188
StripFences(response) ==
    IF Contains(response, FenceJson)
    THEN remove_all(remove_all(response, FenceJson), Fence)
    ELSE response

\* a faulty variant of JsonCandidate: the slice ends before the last brace
JsonCandidateWithoutBrace(response) ==
    strip(Slice(response, find(response, <<"{">>, 0), rfind(response, <<"}">>)))

\* lines 192-197
JsonCandidate(response) ==
    strip(Slice(response, find(response, <<"{">>, 0), rfind(response, <<"}">>) + 1))

\* lines 217-232: the quoted value after the key, when every find succeeds
\* and the value is not blank
NoSummary == [found |-> FALSE, summary |-> <<>>]

\* lines 231-232
SummaryIfNotBlank(summary) ==
    IF strip(summary) # <<>> THEN [found |-> TRUE, summary |-> summary] ELSE NoSummary

\* the slice that keeps the opening quote
SummaryToKeepingQuote(response, quote_start, quote_end) ==
    IF quote_end = -1 THEN NoSummary
    ELSE SummaryIfNotBlank(Slice(response, quote_start, quote_end))

\* lines 229-231
SummaryTo(response, quote_start, quote_end) ==
    IF quote_end = -1 THEN NoSummary
    ELSE SummaryIfNotBlank(Slice(response, quote_start + 1, quote_end))

\* lines 226-229
SummaryFrom(response, quote_start) ==
    IF quote_start = -1 THEN NoSummary
    ELSE SummaryTo(response, quote_start, find(response, <<"\"">>, quote_start + 1))

\* lines 223-226
SummaryAfterColon(response, colon_pos) ==
    IF colon_pos = -1 THEN NoSummary
    ELSE SummaryFrom(response, find(response, <<"\"">>, colon_pos))

\* lines 220-223
SummaryAfterKey(response, summary_start) ==
    IF summary_start = -1 THEN NoSummary
    ELSE SummaryAfterColon(response, find(response, <<":">>, summary_start))

ExtractSummary(response) ==
    IF Contains(response, K_comprehensive_summary)
    THEN SummaryAfterKey(response, find(response, QuotedKey, 0))
    ELSE NoSummary

\* lines 233-239, 243-255: the dict of the handler, from the extraction x
SummaryOrPreview(response, notes, x) ==
    IF x.found
    THEN FallbackDict(x.summary, notes)
    ELSE FallbackDict(Truncate(Truncate(response, 200), 1000), notes)

\* lines 211-255: the handler of json.JSONDecodeError
JsonErrorFallback(response, msg) ==
    SummaryOrPreview(response, JsonErrorPrefix \o msg \o JsonErrorSuffix,
                     ExtractSummary(response))

\* str(n) of a natural number
RECURSIVE DecimalText(_)
DecimalText(n) ==
    LET d == <<"0", "1", "2", "3", "4", "5", "6", "7", "8", "9">>[(n % 10) + 1]
    IN  IF n < 10 THEN <<d>> ELSE Append(DecimalText(n \div 10), d)

\* str(e) of a JSONDecodeError at offset at of doc, nl being the offsets of
\* the line ends before it: 'msg: line L column C (char at)'
ErrorText(msg, at, nl) ==
    msg \o <<":", " ", "l", "i", "n", "e", " ">> \o DecimalText(Cardinality(nl) + 1)
        \o <<" ", "c", "o", "l", "u", "m", "n", " ">>
        \o DecimalText(IF nl = {} THEN at + 1 ELSE at - Highest(nl))
        \o <<" ", "(", "c", "h", "a", "r", " ">> \o DecimalText(at) \o <<")">>

\* the offsets of the line ends of doc before offset at
LineEnds(doc, at) == {a \in Occurrences(doc, <<"\n">>) : a < at}

\* lines 199-200, 211: what json.loads gave, r
Decoded(response, r) ==
    IF r.err = None THEN [raised |-> None, value |-> r.val]
    ELSE IF r.err = "JSONDecodeError"
         THEN [raised |-> None,
               value |-> JsonErrorFallback(response,
                           ErrorText(r.msg, r.pos, LineEnds(JsonCandidate(response), r.pos)))]
    ELSE [raised |-> r.err, value |-> PyNone]

\* lines 191-209, response being the text without its fences
ParseStripped(response) ==
    IF Contains(response, <<"{">>) /\ Contains(response, <<"}">>)
    THEN Decoded(response, json_loads(JsonCandidate(response)))
    ELSE [raised |-> None,
          value |-> FallbackDict(Truncate(response, 500), ResponseParsingFailed)]

\* The whole function: the dict it returns, or the exception that leaves it.
_parse_batch_response(text) == ParseStripped(StripFences(text))

-----------------------------------------------------------------------------
(* EmailLLMProcessor._process_all_emails_batch, lines 107-116 *)

\* datetime.now().isoformat(): the clock reading as text
IsoFormat(t) == DecimalText(t)

AnalysisKeys ==
    << K_total_emails, K_analysis_timestamp, K_comprehensive_summary,
       K_high_priority_emails, K_action_items, K_email_categories,
       K_processing_notes, K_raw_emails >>

\* a faulty variant of BuildAnalysis: the parsed response returned as it is,
\* without the fields of the batch and without the defaults
ParsedResponseOnly(batch, parsed_response, t) == parsed_response

\* the dict returned by _process_all_emails_batch, lines 107-116
BuildAnalysis(batch, parsed_response, t) ==
    PyDict(<< <<K_total_emails, PyNumber(DecimalText(Len(batch)))>>,
              <<K_analysis_timestamp, PyStr(IsoFormat(t))>>,
              <<K_comprehensive_summary,
                Get(parsed_response, K_comprehensive_summary, PyStr(NoSummaryGenerated))>>,
              <<K_high_priority_emails,
                Get(parsed_response, K_high_priority_emails, PyList(<<>>))>>,
              <<K_action_items, Get(parsed_response, K_action_items, PyList(<<>>))>>,
              <<K_email_categories, Get(parsed_response, K_email_categories, PyDict(<<>>))>>,
              <<K_processing_notes, Get(parsed_response, K_processing_notes, PyStr(<<>>))>>,
              <<K_raw_emails, PyList(batch)>> >>)

-----------------------------------------------------------------------------
(* The inputs *)

SampleEmail ==
    PyDict(<< <<K_title, PyStr(<<"H", "i">>)>>,
              <<K_sender, PyStr(<<"a", "@", "b">>)>>,
              <<K_date, PyStr(<<"1">>)>>,
              <<K_text, PyStr(<<"o", "k">>)>> >>)

\* the files process_emails_from_file is called on: one without records, one
\* whose prompt is short, one whose prompt is estimated at 200000 tokens
EmptyFile == [emails |-> <<>>, prompt_len |-> 0]
ShortFile == [emails |-> <<SampleEmail>>, prompt_len |-> ShortPrompt]
LongFile == [emails |-> <<SampleEmail>>, prompt_len |-> LongPrompt]
ExtractedFiles == {EmptyFile, ShortFile, LongFile}

Quoted(w) == <<"\"">> \o w \o <<"\"">>

\* {"key": value}
Object1(key, value) == <<"{">> \o Quoted(key) \o <<":", " ">> \o value \o <<"}">>

AllClear == <<"A", "l", "l", " ", "c", "l", "e", "a", "r", ".">>

NullWord == <<"n", "u", "l", "l">>
Prose == <<"n", "o", " ", "j", "s", "o", "n">>

\* n arrays, one inside the other
RECURSIVE Brackets(_)
Brackets(n) == IF n = 0 THEN <<>> ELSE <<"[">> \o Brackets(n - 1) \o <<"]">>

\* an object whose value nests one container more than json.loads descends into
DeepText == Object1(<<"a">>, Brackets(MaxNesting))

\* the texts the provider answers with in the client's specifications
ResponseTexts == { Object1(K_comprehensive_summary, Quoted(AllClear)) }

\* the texts handed to the parser in its own specification: every text of at
\* most MaxTextLen characters of ParseAlphabet, and the shapes of a model answer
MaxTextLen == 3
ParseAlphabet == {"{", "}", "\"", ":", "a"}

ShortTexts == UNION {[1..k -> ParseAlphabet] : k \in 0..MaxTextLen}

\* prose, then the object inside a fenced block
FencedAnswer ==
    Prose \o <<":", "\n">> \o FenceJson \o <<"\n">>
      \o Object1(K_comprehensive_summary, Quoted(AllClear)) \o <<"\n">> \o Fence

\* 300 characters without a brace, and 300 characters after an opening brace
LongProse == [i \in 1..300 |-> "a"]
LongBroken == <<"{">> \o LongProse

\* objects broken before the colon, before the value and inside the value
KeyWithoutColon == <<"{">> \o QuotedKey \o <<"}">>
KeyWithoutValue == <<"{">> \o QuotedKey \o <<":", " ", "}">>
UnclosedValue == <<"{">> \o QuotedKey \o <<":", " ", "\"">> \o AllClear \o <<"}">>

AnswerTexts ==
    { Object1(K_comprehensive_summary, Quoted(AllClear)),
      KeyWithoutColon,
      KeyWithoutValue,
      UnclosedValue,
      FencedAnswer,
      LongProse,
      LongBroken,
      Object1(K_high_priority_emails, NullWord),
      Object1(K_action_items, NullWord),
      Object1(K_email_categories, NullWord),
      Object1(K_high_priority_emails, <<"[", "]">>),
      Object1(K_email_categories, Object1(<<"w", "o", "r", "k">>, <<"2">>)),
      Object1(K_comprehensive_summary, Quoted(AllClear) \o <<" ", "x">>),
      Object1(K_comprehensive_summary, Quoted(<<" ">>) \o <<",">>),
      Object1(K_comprehensive_summary, Quoted([i \in 1..Len(AllClear) |-> " "]) \o <<" ", "x">>),
      Object1(<<"a">>, Brackets(MaxNesting - 1)),
      Prose,
      DeepText }

RawTexts == ShortTexts \cup AnswerTexts

-----------------------------------------------------------------------------
(* The calls *)

\* a faulty variant of HasRateLimits: no provider calls _check_rate_limits
NoProviderHasRateLimits(provider) == FALSE

\* the provider whose _call_*_api calls _check_rate_limits (line 369)
HasRateLimits(provider) == provider = "google"

\* the providers _call_llm_api dispatches to (lines 314-319)
HasEndpoint(provider) == provider \in {"openai", "anthropic", "google"}

\* a faulty variant of MissingApiKey: the api key is never tested
ApiKeyNotTested(c) == FALSE

\* if not self.api_key (line 67)
MissingApiKey(c) == Falsy(c.api_key)

\* a faulty variant of RaisesForStatus: every status is let through
NeverRaisesForStatus(answer) == FALSE

\* response.raise_for_status() raises (lines 341, 362, 387)
RaisesForStatus(answer) == answer = "non2xx"

\* the text is missing from the envelope of a 2xx answer (lines 343, 364, 392)
EnvelopeBroken(answer) == answer = "malformed"

\* process_emails_from_file, lines 56-77: up to the call of
\* _process_all_emails_batch
process_emails_from_file ==
    /\ pc = "idle"
    /\ client.status = "constructed"
    /\ error' = None
    /\ http_requests' = 0
    /\ admitted' = FALSE
    /\ send_start' = -1
    /\ raw_text' = <<>>
    /\ status' = None
    /\ IF MissingApiKey(client)
       THEN /\ returned' = PyList(<<>>)
            /\ emails' = <<>>
            /\ prompt_len' = 0
            /\ pc' = "idle"
       ELSE /\ emails' = extracted_file.emails
            /\ IF extracted_file.emails = <<>>
               THEN /\ returned' = PyList(<<>>)
                    /\ prompt_len' = 0
                    /\ pc' = "idle"
               ELSE /\ returned' = returned
                    /\ prompt_len' = extracted_file.prompt_len
                    /\ pc' = "batch"
    /\ UNCHANGED <<client, now, extracted_file, admit_log, admits_24h, send_end,
                   failures, ticks, day_jumps>>
    /\ UNCHANGED doc_vars
    /\ UNCHANGED main_vars

\* _call_llm_api and the provider's _call_*_api up to requests.post:
\* lines 311-321, 323-340, 345-361, 366-386
_call_llm_api(window) ==
    /\ pc = "batch"
    /\ LET r == _check_rate_limits(client.usage_tracker, now)
       IN  IF ~HasEndpoint(client.provider)
           THEN /\ pc' = "raised"
                /\ error' = "ValueError"
                /\ UNCHANGED <<client, now, http_requests, admitted, admit_log,
                               admits_24h, send_start>>
           ELSE IF ~HasRateLimits(client.provider)
           THEN /\ pc' = "post"
                /\ http_requests' = http_requests + 1
                /\ send_start' = now
                /\ UNCHANGED <<client, now, error, admitted, admit_log, admits_24h>>
           ELSE IF r.raised
           THEN /\ client' = [client EXCEPT !.usage_tracker = r.tracker]
                /\ pc' = "raised"
                /\ error' = "DailyLimit"
                /\ UNCHANGED <<now, http_requests, admitted, admit_log, admits_24h,
                               send_start>>
           ELSE /\ client' = [client EXCEPT !.usage_tracker = r.tracker]
                /\ now' = r.clock
                /\ admitted' = TRUE
                /\ admit_log' = Append(Prune(admit_log, r.clock, window), r.clock)
                /\ admits_24h' = admits_24h + 1
                /\ pc' = "post"
                /\ http_requests' = http_requests + 1
                /\ send_start' = r.clock
                /\ UNCHANGED error
    /\ UNCHANGED <<extracted_file, emails, prompt_len, raw_text, status, returned,
                   send_end, failures, ticks, day_jumps>>
    /\ UNCHANGED doc_vars
    /\ UNCHANGED main_vars

\* the provider's answer and the rest of _call_*_api: raise_for_status, the
\* usage update (google), the extraction of the text from the envelope
Respond ==
    /\ pc = "post"
    /\ \E answer \in {"ok", "non2xx", "malformed"}, text \in ResponseTexts :
         /\ (answer # "ok") => (failures < MaxFailures)
         /\ failures' = IF answer # "ok" THEN failures + 1 ELSE failures
         /\ status' = answer
         /\ IF RaisesForStatus(answer)
            THEN /\ error' = "HTTPError"
                 /\ pc' = "raised"
                 /\ UNCHANGED client
            ELSE /\ client' = IF HasRateLimits(client.provider)
                              THEN [client EXCEPT !.usage_tracker =
                                      _update_usage_tracker(@, EstimatedTokens(prompt_len), now)]
                              ELSE client
                 /\ error' = IF EnvelopeBroken(answer) THEN "KeyError" ELSE None
                 /\ pc' = IF EnvelopeBroken(answer) THEN "raised" ELSE "parse"
         /\ raw_text' = IF answer = "ok" THEN text ELSE <<>>
    /\ send_end' = now
    /\ UNCHANGED <<now, extracted_file, emails, prompt_len, returned, http_requests,
                   admitted, admit_log, admits_24h, send_start, ticks, day_jumps>>
    /\ UNCHANGED doc_vars
    /\ UNCHANGED main_vars

\* _process_all_emails_batch from the response on, and the return of
\* process_emails_from_file: lines 104-116, 83-87
Parsed(p) ==
    IF p.raised # None
    THEN /\ pc' = "raised"
         /\ error' = p.raised
         /\ returned' = returned
    ELSE /\ pc' = "idle"
         /\ error' = None
         /\ returned' = BuildAnalysis(emails, p.value, now)

ParseAndReturn ==
    /\ pc = "parse"
    /\ Parsed(_parse_batch_response(raw_text))
    /\ emails' = <<>>
    /\ prompt_len' = 0
    /\ UNCHANGED <<client, now, extracted_file, raw_text, status, http_requests,
                   admitted, admit_log, admits_24h, send_end, send_start, failures,
                   ticks, day_jumps>>
    /\ UNCHANGED doc_vars
    /\ UNCHANGED main_vars

\* a faulty variant of Except: the handler returns None
ExceptReturningNone ==
    /\ pc = "raised"
    /\ pc' = "idle"
    /\ returned' = PyNone
    /\ emails' = <<>>
    /\ prompt_len' = 0
    /\ UNCHANGED <<client, now, extracted_file, raw_text, status, error,
                   http_requests, admitted, admit_log, admits_24h, send_end,
                   send_start, failures, ticks, day_jumps>>
    /\ UNCHANGED doc_vars
    /\ UNCHANGED main_vars

\* except Exception: lines 89-91
Except ==
    /\ pc = "raised"
    /\ pc' = "idle"
    /\ returned' = PyList(<<>>)
    /\ emails' = <<>>
    /\ prompt_len' = 0
    /\ UNCHANGED <<client, now, extracted_file, raw_text, status, error,
                   http_requests, admitted, admit_log, admits_24h, send_end,
                   send_start, failures, ticks, day_jumps>>
    /\ UNCHANGED doc_vars
    /\ UNCHANGED main_vars

-----------------------------------------------------------------------------
(* The environment: the clock moves while the caller is between calls and   *)
(* while a request is in flight                                             *)

TickSteps == {1, minute_seconds}

Tick(window) ==
    /\ pc \in {"idle", "post"}
    /\ ticks < MaxTicks
    /\ \E d \in TickSteps :
         /\ now' = now + d
         /\ admit_log' = Prune(admit_log, now + d, window)
    /\ ticks' = ticks + 1
    /\ UNCHANGED <<client, pc, extracted_file, emails, prompt_len, raw_text, status,
                   error, returned, http_requests, admitted, admits_24h, send_end,
                   send_start, failures, day_jumps>>
    /\ UNCHANGED doc_vars
    /\ UNCHANGED main_vars

\* a whole day passes once the daily limit is reached
DayPass ==
    /\ pc = "idle"
    /\ day_jumps < MaxDayJumps
    /\ DailyLimitReached(client.usage_tracker)
    /\ now' = now + day_seconds
    /\ admit_log' = <<>>
    /\ admits_24h' = 0
    /\ day_jumps' = day_jumps + 1
    /\ UNCHANGED <<client, pc, extracted_file, emails, prompt_len, raw_text, status,
                   error, returned, http_requests, admitted, send_end, send_start,
                   failures, ticks>>
    /\ UNCHANGED doc_vars
    /\ UNCHANGED main_vars

-----------------------------------------------------------------------------
(* Specifications *)

\* no document in the pipeline
NoDocument ==
    /\ stage = "none"
    /\ inbox = <<>>
    /\ content = <<>>
    /\ file_emails = <<>>
    /\ prompt = <<>>
    /\ results = PyNone
    /\ report = PyNone
    /\ previous_report = PyNone

\* main() is not running
NoWorkflow ==
    /\ main_pc = "off"
    /\ files = {}
    /\ console = <<>>
    /\ failed_commands = {}

InitCall ==
    /\ NoDocument
    /\ NoWorkflow
    /\ now = ClockStart
    /\ pc = "idle"
    /\ emails = <<>>
    /\ prompt_len = 0
    /\ raw_text = <<>>
    /\ status = None
    /\ error = None
    /\ returned = PyNone
    /\ http_requests = 0
    /\ admitted = FALSE
    /\ admit_log = <<>>
    /\ admits_24h = 0
    /\ send_end = -1
    /\ send_start = -1
    /\ failures = 0
    /\ ticks = 0
    /\ day_jumps = 0

\* any construction of a client, then calls under a clock that moves freely
Init ==
    /\ \E k \in Credentials, e \in Credentials, p \in Providers :
         client = __init__(k, e, p, ClockStart)
    /\ extracted_file \in ExtractedFiles
    /\ InitCall

\* a google client with its key and a file of records
InitDay ==
    /\ client = __init__("key", None, "google", ClockStart)
    /\ extracted_file = ShortFile
    /\ InitCall

Next ==
    \/ (now < ClockStart + MaxTime /\ process_emails_from_file)
    \/ _call_llm_api(0)
    \/ Respond
    \/ ParseAndReturn
    \/ Except
    \/ Tick(0)

Spec == Init /\ [][Next]_vars

\* a google client under the same free clock, with the admissions of the
\* trailing minute on record
NextMinute ==
    \/ (now < ClockStart + MaxTime /\ process_emails_from_file)
    \/ _call_llm_api(minute_seconds)
    \/ Respond
    \/ ParseAndReturn
    \/ Except
    \/ Tick(minute_seconds)

SpecMinute == InitDay /\ [][NextMinute]_vars

\* the client sending back to back until the daily limit, then a day passes
NextDay ==
    \/ process_emails_from_file
    \/ _call_llm_api(0)
    \/ Respond
    \/ ParseAndReturn
    \/ Except
    \/ DayPass

SpecDay == InitDay /\ [][NextDay]_vars

\* a google client that has just received a well-formed 2xx answer to its
\* first request: the parser runs on every text of RawTexts
InitParse ==
    /\ client = [__init__("key", None, "google", ClockStart) EXCEPT !.usage_tracker =
                   _update_usage_tracker(@, EstimatedTokens(ShortFile.prompt_len), ClockStart)]
    /\ now = ClockStart
    /\ pc = "parse"
    /\ extracted_file = ShortFile
    /\ emails = ShortFile.emails
    /\ prompt_len = ShortFile.prompt_len
    /\ raw_text \in RawTexts
    /\ status = "ok"
    /\ error = None
    /\ returned = PyNone
    /\ http_requests = 1
    /\ admitted = TRUE
    /\ admit_log = <<ClockStart>>
    /\ admits_24h = 1
    /\ send_end = ClockStart
    /\ send_start = ClockStart
    /\ failures = 0
    /\ ticks = 0
    /\ day_jumps = 0
    /\ NoDocument
    /\ NoWorkflow

NextParse ==
    \/ ParseAndReturn
    \/ Except

SpecParse == InitParse /\ [][NextParse]_vars

-----------------------------------------------------------------------------
(* The extracted file: create_combined_summary.py writes it,                *)
(* _parse_extracted_file reads it back                                      *)

\* the literal texts of the two functions
Label(w) ==
    CASE w = "EMAIL " -> << "E", "M", "A", "I", "L", " " >>
      [] w = "Title: " -> << "T", "i", "t", "l", "e", ":", " " >>
      [] w = "From: " -> << "F", "r", "o", "m", ":", " " >>
      [] w = "Date: " -> << "D", "a", "t", "e", ":", " " >>
      [] w = "Content:" -> << "C", "o", "n", "t", "e", "n", "t", ":" >>
      [] w = "Content:\n" -> << "C", "o", "n", "t", "e", "n", "t", ":", "\n" >>
      [] w = "No Subject" -> << "N", "o", " ", "S", "u", "b", "j", "e", "c", "t" >>
      [] w = "Unknown Sender" -> << "U", "n", "k", "n", "o", "w", "n", " ", "S", "e", "n", "d", "e", "r" >>
      [] w = "Unknown Date" -> << "U", "n", "k", "n", "o", "w", "n", " ", "D", "a", "t", "e" >>
      [] w = "No content" -> << "N", "o", " ", "c", "o", "n", "t", "e", "n", "t" >>
      [] w = "No content available" -> << "N", "o", " ", "c", "o", "n", "t", "e", "n", "t", " ", "a", "v", "a",
              "i", "l", "a", "b", "l", "e" >>
      [] w = "subject" -> << "s", "u", "b", "j", "e", "c", "t" >>
      [] w = "sender" -> << "s", "e", "n", "d", "e", "r" >>
      [] w = "date" -> << "d", "a", "t", "e" >>
      [] w = "body" -> << "b", "o", "d", "y" >>
      [] w = "snippet" -> << "s", "n", "i", "p", "p", "e", "t" >>
      [] w = "None" -> << "N", "o", "n", "e" >>

\* '-' * 30 and '=' * 60 of the writer, '=' * 50 of the reader
dash_count == 30
written_separator_count == 60
read_separator_count == 50
Repeated(c, n) == [i \in 1..n |-> c]

\* s.split(sep): the pieces between the non-overlapping occurrences, left to right
RECURSIVE SplitFrom(_, _, _)
SplitAt(s, sep, from, at) ==
    IF at = -1 THEN <<Slice(s, from, Len(s))>>
    ELSE <<Slice(s, from, at)>> \o SplitFrom(s, sep, at + Len(sep))

SplitFrom(s, sep, from) == SplitAt(s, sep, from, find(s, sep, from))

split(s, sep) == SplitFrom(s, sep, 0)

\* sep.join(pieces)
RECURSIVE join(_, _)
join(sep, pieces) ==
    IF pieces = <<>> THEN <<>>
    ELSE IF Len(pieces) = 1 THEN pieces[1]
    ELSE pieces[1] \o sep \o join(sep, Tail(pieces))

\* str(x) of an f-string field: the text itself, 'None', or the digits of an
\* integer written without sign, fraction or exponent
Str(x) == IF x.t = "None" THEN Label("None") ELSE x.v

\* bool(x) of None, a str, a list, a dict, an integer or a JSON boolean
Truthy(x) ==
    /\ x.t # "None"
    /\ x.v # <<>>
    /\ x # PyNumber(<<"0">>)
    /\ x # PyBool(Word("false"))

\* create_combined_summary.py lines 36-40
EntryContent(body, snippet) ==
    IF Truthy(body) /\ body # PyStr(Label("No content")) THEN body ELSE snippet

\* lines 30-35, 43-49: the entry of the message at index i (from 0)
email_entry(i, email) ==
    Label("EMAIL ") \o DecimalText(i + 1) \o <<"\n">>
      \o Repeated("-", dash_count) \o <<"\n">>
      \o Label("Title: ") \o Str(Get(email, Label("subject"), PyStr(Label("No Subject")))) \o <<"\n">>
      \o Label("From: ") \o Str(Get(email, Label("sender"), PyStr(Label("Unknown Sender")))) \o <<"\n">>
      \o Label("Date: ") \o Str(Get(email, Label("date"), PyStr(Label("Unknown Date")))) \o <<"\n">>
      \o Label("Content:\n")
      \o Str(EntryContent(Get(email, Label("body"), PyStr(Label("No content"))),
                          Get(email, Label("snippet"), PyStr(<<>>)))) \o <<"\n">>
      \o Repeated("=", written_separator_count) \o <<"\n">>

\* lines 26-54: the text written to the extracted file
combined_text(loaded) ==
    join(<<"\n">>, [i \in 1..Len(loaded) |-> email_entry(i - 1, loaded[i])])

\* section.split(label)[1].split('\n')[0] if label in section else default,
\* stripped (email_llm_processor.py lines 276-285)
LabelledLine(section, label, default) ==
    strip(IF Contains(section, label)
          THEN split(split(section, label)[2], <<"\n">>)[1]
          ELSE default)

\* lines 290-293
ContentEnd(section, at) == IF at = -1 THEN Len(section) ELSE at

\* lines 288-297
ContentText(section) ==
    IF Contains(section, Label("Content:"))
    THEN strip(Slice(section,
                     find(section, Label("Content:"), 0) + Len(Label("Content:")),
                     ContentEnd(section,
                                find(section, Repeated("=", read_separator_count), 0))))
    ELSE Label("No content available")

\* lines 273-297: current_email of one section
current_email(section) ==
    PyDict(<< <<K_title, PyStr(LabelledLine(section, Label("Title: "), Label("No Subject")))>>,
              <<K_sender, PyStr(LabelledLine(section, Label("From: "), Label("Unknown Sender")))>>,
              <<K_date, PyStr(LabelledLine(section, Label("Date: "), Label("Unknown Date")))>>,
              <<K_text, PyStr(ContentText(section))>> >>)

\* lines 270-271 and 299: the section is not blank and its record has a
\* title and a text
Retained(section) ==
    /\ strip(section) # <<>>
    /\ Truthy(Get(current_email(section), K_title, PyNone))
    /\ Truthy(Get(current_email(section), K_text, PyNone))

\* a faulty variant of email_sections: the text before the first token is kept
EmailSectionsWithHeader(text) == split(text, Label("EMAIL "))

\* line 267: content.split('EMAIL ')[1:]
email_sections(text) == Tail(split(text, Label("EMAIL ")))

\* lines 269-300
RECURSIVE ParseSections(_)
ParseSections(sections) ==
    IF sections = <<>> THEN <<>>
    ELSE (IF Retained(sections[1]) THEN <<current_email(sections[1])>> ELSE <<>>)
           \o ParseSections(Tail(sections))

_parse_extracted_file(text) == ParseSections(email_sections(text))

\* the messages of the loaded JSON file
Message(subject, from, date, body) ==
    PyDict(<< <<Label("subject"), PyStr(subject)>>,
              <<Label("sender"), PyStr(from)>>,
              <<Label("date"), PyStr(date)>>,
              <<Label("body"), PyStr(body)>> >>)

InvoiceDue ==
    Message(<< "I", "n", "v", "o", "i", "c", "e", " ", "D", "u", "e" >>,
            << "b", "i", "l", "l", "i", "n", "g", "@", "x", ".", "c", "o", "m" >>,
            << "2", "0", "2", "5", "-", "0", "1", "-", "0", "1" >>,
            << "P", "a", "y", " ", "b", "y", " ", "F", "r", "i", "d", "a", "y" >>)

Newsletter ==
    Message(<< "N", "e", "w", "s", "l", "e", "t", "t", "e", "r" >>,
            << "n", "e", "w", "s", "@", "y", ".", "c", "o", "m" >>,
            << "2", "0", "2", "5", "-", "0", "1", "-", "0", "1" >>,
            << "W", "e", "e", "k", "l", "y", " ", "d", "i", "g", "e", "s", "t" >>)

\* an empty subject
Untitled ==
    Message(<<>>, << "b", "o", "t", "@", "x", ".", "c", "o", "m" >>, << "2", "0", "2", "5", "-", "0", "1", "-", "0", "3" >>, << "p", "i", "n", "g" >>)

\* the record-start token inside the subject; a label inside the subject of
\* a message without body, whose snippet is written
TokenInSubject ==
    Message(<< "E", "M", "A", "I", "L", " ", "m", "e", " ", "b", "a", "c", "k" >>,
            << "e", "v", "e", "@", "x", ".", "c", "o", "m" >>,
            << "2", "0", "2", "5", "-", "0", "1", "-", "0", "4" >>,
            << "s", "o", "o", "n" >>)

LabelInSubject ==
    PyDict(<< <<Label("subject"), PyStr(<< "F", "w", "d", ":", " ", "F", "r", "o", "m", ":", " ", "t", "h", "e",
              " ", "b", "o", "a", "r", "d" >>)>>,
              <<Label("sender"), PyStr(<< "s", "a", "m", "@", "x", ".", "c", "o", "m" >>)>>,
              <<Label("date"), PyStr(<< "2", "0", "2", "5", "-", "0", "1", "-", "0", "5" >>)>>,
              <<Label("snippet"), PyStr(<< "s", "e", "e", " ", "b", "e", "l", "o", "w" >>)>> >>)

\* a body of one character more than content_limit
content_limit == 500

LongBody ==
    Message(<< "R", "e", "p", "o", "r", "t" >>,
            << "k", "i", "m", "@", "x", ".", "c", "o", "m" >>,
            << "2", "0", "2", "5", "-", "0", "1", "-", "0", "7" >>,
            Repeated("r", content_limit + 1))

\* the messages whose values hold no token, no label and no blank edge
PlainMessages == {InvoiceDue, Newsletter, LongBody}
Messages == PlainMessages \cup {Untitled, TokenInSubject, LabelInSubject}

MaxInbox == 2
Inboxes == UNION {[1..n -> Messages] : n \in 0..MaxInbox}

\* the text before the first record of a file: none, or a header
Headers == {<<>>, << "E", "x", "t", "r", "a", "c", "t", "e", "d", " ", "e", "m", "a", "i",
              "l", "s", " ", "o", "f", " ", "t", "o", "d", "a", "y", "\n", "\n" >>}

\* the messages are loaded and written to the extracted file
extract_emails_from_professional_file ==
    /\ stage = "loaded"
    /\ content' = combined_text(inbox)
    /\ stage' = "extracted"
    /\ UNCHANGED <<inbox, file_emails, prompt, results, report, previous_report>>
    /\ UNCHANGED call_vars
    /\ UNCHANGED main_vars

\* the extracted file is read back
ReadExtractedFile ==
    /\ stage = "extracted"
    /\ file_emails' = _parse_extracted_file(content)
    /\ stage' = "parsed"
    /\ UNCHANGED <<inbox, content, prompt, results, report, previous_report>>
    /\ UNCHANGED call_vars
    /\ UNCHANGED main_vars

\* the literal texts of _create_batch_analysis_prompt (lines 123-128, 133-179)
PromptText(w) ==
    CASE w = "head" -> << "\n", "P", "l", "e", "a", "s", "e", " ", "a", "n", "a", "l", "y", "z",
              "e", " ", "t", "h", "e", " ", "f", "o", "l", "l", "o", "w", "i", "n",
              "g", " " >>
      [] w = "middle" -> << " ", "e", "m", "a", "i", "l", "s", " ", "a", "n", "d", " ", "p", "r",
              "o", "v", "i", "d", "e", " ", "a", " ", "c", "o", "m", "p", "r", "e",
              "h", "e", "n", "s", "i", "v", "e", " ", "s", "u", "m", "m", "a", "r",
              "y", ".", " ", "F", "o", "c", "u", "s", " ", "o", "n", " ", "i", "d",
              "e", "n", "t", "i", "f", "y", "i", "n", "g", " ", "h", "i", "g", "h",
              "-", "p", "r", "i", "o", "r", "i", "t", "y", " ", "e", "m", "a", "i",
              "l", "s", " ", "a", "n", "d", " ", "a", "c", "t", "i", "o", "n", "a",
              "b", "l", "e", " ", "i", "t", "e", "m", "s", ".", "\n", "\n" >>
      [] w = "tail" -> << "\n", "\n", "I", "M", "P", "O", "R", "T", "A", "N", "T", ":", " ", "R",
              "e", "s", "p", "o", "n", "d", " ", "w", "i", "t", "h", " ", "O", "N",
              "L", "Y", " ", "v", "a", "l", "i", "d", " ", "J", "S", "O", "N", ".",
              " ", "D", "o", " ", "n", "o", "t", " ", "i", "n", "c", "l", "u", "d",
              "e", " ", "a", "n", "y", " ", "m", "a", "r", "k", "d", "o", "w", "n",
              " ", "f", "o", "r", "m", "a", "t", "t", "i", "n", "g", ",", " ", "c",
              "o", "d", "e", " ", "b", "l", "o", "c", "k", "s", ",", " ", "o", "r",
              " ", "a", "d", "d", "i", "t", "i", "o", "n", "a", "l", " ", "t", "e",
              "x", "t", ".", "\n", "\n", "{", "\n", " ", " ", " ", " ", "\"", "c", "o",
              "m", "p", "r", "e", "h", "e", "n", "s", "i", "v", "e", "_", "s", "u",
              "m", "m", "a", "r", "y", "\"", ":", " ", "\"", "A", " ", "3", "-", "4",
              " ", "p", "a", "r", "a", "g", "r", "a", "p", "h", " ", "s", "u", "m",
              "m", "a", "r", "y", " ", "o", "f", " ", "a", "l", "l", " ", "e", "m",
              "a", "i", "l", "s", " ", "r", "e", "c", "e", "i", "v", "e", "d", ",",
              " ", "h", "i", "g", "h", "l", "i", "g", "h", "t", "i", "n", "g", " ",
              "m", "a", "i", "n", " ", "t", "h", "e", "m", "e", "s", " ", "a", "n",
              "d", " ", "p", "a", "t", "t", "e", "r", "n", "s", "\"", ",", "\n", " ",
              " ", " ", " ", "\"", "h", "i", "g", "h", "_", "p", "r", "i", "o", "r",
              "i", "t", "y", "_", "e", "m", "a", "i", "l", "s", "\"", ":", " ", "[",
              "\n", " ", " ", " ", " ", " ", " ", " ", " ", "{", "\n", " ", " ", " ",
              " ", " ", " ", " ", " ", " ", " ", " ", " ", "\"", "e", "m", "a", "i",
              "l", "_", "n", "u", "m", "b", "e", "r", "\"", ":", " ", "1", ",", "\n",
              " ", " ", " ", " ", " ", " ", " ", " ", " ", " ", " ", " ", "\"", "s",
              "u", "b", "j", "e", "c", "t", "\"", ":", " ", "\"", "E", "m", "a", "i",
              "l", " ", "s", "u", "b", "j", "e", "c", "t", "\"", ",", "\n", " ", " ",
              " ", " ", " ", " ", " ", " ", " ", " ", " ", " ", "\"", "s", "e", "n",
              "d", "e", "r", "\"", ":", " ", "\"", "S", "e", "n", "d", "e", "r", " ",
              "e", "m", "a", "i", "l", "\"", ",", "\n", " ", " ", " ", " ", " ", " ",
              " ", " ", " ", " ", " ", " ", "\"", "p", "r", "i", "o", "r", "i", "t",
              "y", "_", "l", "e", "v", "e", "l", "\"", ":", " ", "\"", "h", "i", "g",
              "h", "/", "m", "e", "d", "i", "u", "m", "\"", ",", "\n", " ", " ", " ",
              " ", " ", " ", " ", " ", " ", " ", " ", " ", "\"", "r", "e", "a", "s",
              "o", "n", "_", "f", "o", "r", "_", "p", "r", "i", "o", "r", "i", "t",
              "y", "\"", ":", " ", "\"", "W", "h", "y", " ", "t", "h", "i", "s", " ",
              "e", "m", "a", "i", "l", " ", "i", "s", " ", "i", "m", "p", "o", "r",
              "t", "a", "n", "t", "\"", ",", "\n", " ", " ", " ", " ", " ", " ", " ",
              " ", " ", " ", " ", " ", "\"", "k", "e", "y", "_", "p", "o", "i", "n",
              "t", "s", "\"", ":", " ", "[", "\"", "P", "o", "i", "n", "t", " ", "1",
              "\"", ",", " ", "\"", "P", "o", "i", "n", "t", " ", "2", "\"", ",", " ",
              "\"", "P", "o", "i", "n", "t", " ", "3", "\"", "]", "\n", " ", " ", " ",
              " ", " ", " ", " ", " ", "}", "\n", " ", " ", " ", " ", "]", ",", "\n",
              " ", " ", " ", " ", "\"", "a", "c", "t", "i", "o", "n", "_", "i", "t",
              "e", "m", "s", "\"", ":", " ", "[", "\n", " ", " ", " ", " ", " ", " ",
              " ", " ", "{", "\n", " ", " ", " ", " ", " ", " ", " ", " ", " ", " ",
              " ", " ", "\"", "a", "c", "t", "i", "o", "n", "\"", ":", " ", "\"", "W",
              "h", "a", "t", " ", "n", "e", "e", "d", "s", " ", "t", "o", " ", "b",
              "e", " ", "d", "o", "n", "e", "\"", ",", "\n", " ", " ", " ", " ", " ",
              " ", " ", " ", " ", " ", " ", " ", "\"", "p", "r", "i", "o", "r", "i",
              "t", "y", "\"", ":", " ", "\"", "h", "i", "g", "h", "/", "m", "e", "d",
              "i", "u", "m", "/", "l", "o", "w", "\"", ",", "\n", " ", " ", " ", " ",
              " ", " ", " ", " ", " ", " ", " ", " ", "\"", "d", "e", "a", "d", "l",
              "i", "n", "e", "\"", ":", " ", "\"", "W", "h", "e", "n", " ", "i", "t",
              " ", "n", "e", "e", "d", "s", " ", "t", "o", " ", "b", "e", " ", "d",
              "o", "n", "e", " ", "(", "i", "f", " ", "m", "e", "n", "t", "i", "o",
              "n", "e", "d", ")", "\"", ",", "\n", " ", " ", " ", " ", " ", " ", " ",
              " ", " ", " ", " ", " ", "\"", "s", "o", "u", "r", "c", "e", "_", "e",
              "m", "a", "i", "l", "\"", ":", " ", "\"", "W", "h", "i", "c", "h", " ",
              "e", "m", "a", "i", "l", " ", "t", "h", "i", "s", " ", "a", "c", "t",
              "i", "o", "n", " ", "i", "t", "e", "m", " ", "c", "a", "m", "e", " ",
              "f", "r", "o", "m", "\"", "\n", " ", " ", " ", " ", " ", " ", " ", " ",
              "}", "\n", " ", " ", " ", " ", "]", ",", "\n", " ", " ", " ", " ", "\"",
              "e", "m", "a", "i", "l", "_", "c", "a", "t", "e", "g", "o", "r", "i",
              "e", "s", "\"", ":", " ", "{", "\n", " ", " ", " ", " ", " ", " ", " ",
              " ", "\"", "w", "o", "r", "k", "\"", ":", " ", "0", ",", "\n", " ", " ",
              " ", " ", " ", " ", " ", " ", "\"", "p", "e", "r", "s", "o", "n", "a",
              "l", "\"", ":", " ", "0", ",", " ", "\n", " ", " ", " ", " ", " ", " ",
              " ", " ", "\"", "m", "a", "r", "k", "e", "t", "i", "n", "g", "\"", ":",
              " ", "0", ",", "\n", " ", " ", " ", " ", " ", " ", " ", " ", "\"", "n",
              "o", "t", "i", "f", "i", "c", "a", "t", "i", "o", "n", "s", "\"", ":",
              " ", "0", ",", "\n", " ", " ", " ", " ", " ", " ", " ", " ", "\"", "o",
              "t", "h", "e", "r", "\"", ":", " ", "0", "\n", " ", " ", " ", " ", "}",
              ",", "\n", " ", " ", " ", " ", "\"", "p", "r", "o", "c", "e", "s", "s",
              "i", "n", "g", "_", "n", "o", "t", "e", "s", "\"", ":", " ", "\"", "A",
              "n", "y", " ", "a", "d", "d", "i", "t", "i", "o", "n", "a", "l", " ",
              "i", "n", "s", "i", "g", "h", "t", "s", " ", "o", "r", " ", "o", "b",
              "s", "e", "r", "v", "a", "t", "i", "o", "n", "s", " ", "a", "b", "o",
              "u", "t", " ", "t", "h", "e", " ", "e", "m", "a", "i", "l", " ", "b",
              "a", "t", "c", "h", "\"", "\n", "}", "\n", "\n", "F", "o", "c", "u", "s",
              " ", "o", "n", ":", "\n", "1", ".", " ", "I", "d", "e", "n", "t", "i",
              "f", "y", "i", "n", "g", " ", "t", "r", "u", "l", "y", " ", "i", "m",
              "p", "o", "r", "t", "a", "n", "t", " ", "e", "m", "a", "i", "l", "s",
              " ", "t", "h", "a", "t", " ", "r", "e", "q", "u", "i", "r", "e", " ",
              "i", "m", "m", "e", "d", "i", "a", "t", "e", " ", "a", "t", "t", "e",
              "n", "t", "i", "o", "n", "\n", "2", ".", " ", "E", "x", "t", "r", "a",
              "c", "t", "i", "n", "g", " ", "a", "l", "l", " ", "a", "c", "t", "i",
              "o", "n", "a", "b", "l", "e", " ", "i", "t", "e", "m", "s", " ", "a",
              "n", "d", " ", "t", "a", "s", "k", "s", "\n", "3", ".", " ", "C", "a",
              "t", "e", "g", "o", "r", "i", "z", "i", "n", "g", " ", "e", "m", "a",
              "i", "l", "s", " ", "b", "y", " ", "t", "y", "p", "e", "\n", "4", ".",
              " ", "P", "r", "o", "v", "i", "d", "i", "n", "g", " ", "a", " ", "c",
              "o", "m", "p", "r", "e", "h", "e", "n", "s", "i", "v", "e", " ", "o",
              "v", "e", "r", "v", "i", "e", "w", " ", "o", "f", " ", "t", "h", "e",
              " ", "e", "m", "a", "i", "l", " ", "b", "a", "t", "c", "h", "\n", "5",
              ".", " ", "H", "i", "g", "h", "l", "i", "g", "h", "t", "i", "n", "g",
              " ", "u", "r", "g", "e", "n", "t", " ", "m", "a", "t", "t", "e", "r",
              "s", " ", "a", "n", "d", " ", "d", "e", "a", "d", "l", "i", "n", "e",
              "s", "\n", "\n", "R", "e", "m", "e", "m", "b", "e", "r", ":", " ", "R",
              "e", "t", "u", "r", "n", " ", "O", "N", "L", "Y", " ", "t", "h", "e",
              " ", "J", "S", "O", "N", " ", "o", "b", "j", "e", "c", "t", ",", " ",
              "n", "o", " ", "a", "d", "d", "i", "t", "i", "o", "n", "a", "l", " ",
              "f", "o", "r", "m", "a", "t", "t", "i", "n", "g", " ", "o", "r", " ",
              "t", "e", "x", "t", ".", "\n" >>
      [] w = "Email " -> << "\n", "E", "m", "a", "i", "l", " " >>
      [] w = "Subject" -> << ":", "\n", "-", " ", "S", "u", "b", "j", "e", "c", "t", ":", " " >>
      [] w = "From" -> << "\n", "-", " ", "F", "r", "o", "m", ":", " " >>
      [] w = "Date" -> << "\n", "-", " ", "D", "a", "t", "e", ":", " " >>
      [] w = "Content" -> << "\n", "-", " ", "C", "o", "n", "t", "e", "n", "t", ":", " " >>

\* lines 122-130: the block of the record at index i (from 1)
email_summary(i, email) ==
    PromptText("Email ") \o DecimalText(i)
      \o PromptText("Subject") \o Str(Get(email, K_title, PyNone))
      \o PromptText("From") \o Str(Get(email, K_sender, PyNone))
      \o PromptText("Date") \o Str(Get(email, K_date, PyNone))
      \o PromptText("Content") \o Slice(Str(Get(email, K_text, PyNone)), 0, content_limit)
      \o Ellipsis

\* lines 118-181
_create_batch_analysis_prompt(batch) ==
    PromptText("head") \o DecimalText(Len(batch)) \o PromptText("middle")
      \o join(<<"\n">>, [i \in 1..Len(batch) |-> email_summary(i, batch[i])])
      \o PromptText("tail")

\* process_emails_from_file lines 72-75 and _process_all_emails_batch line 98:
\* the prompt of the records read, when there is any
BuildPrompt ==
    /\ stage = "parsed"
    /\ file_emails # <<>>
    /\ prompt' = _create_batch_analysis_prompt(file_emails)
    /\ stage' = "prompted"
    /\ UNCHANGED <<inbox, content, file_emails, results, report, previous_report>>
    /\ UNCHANGED call_vars
    /\ UNCHANGED main_vars

\* a constructed client that is not in a call
IdleClient ==
    /\ client = __init__("key", None, "google", ClockStart)
    /\ extracted_file = EmptyFile
    /\ now = ClockStart
    /\ pc = "idle"
    /\ emails = <<>>
    /\ prompt_len = 0
    /\ raw_text = <<>>
    /\ status = None
    /\ error = None
    /\ returned = PyNone
    /\ http_requests = 0
    /\ admitted = FALSE
    /\ admit_log = <<>>
    /\ admits_24h = 0
    /\ send_end = -1
    /\ send_start = -1
    /\ failures = 0
    /\ ticks = 0
    /\ day_jumps = 0

\* messages about to be written, or a file of theirs that begins with a header
InitRecords ==
    /\ IdleClient
    /\ NoWorkflow
    /\ inbox \in Inboxes
    /\ \/ (stage = "loaded" /\ content = <<>>)
       \/ (stage = "extracted" /\ \E h \in Headers \ {<<>>} : content = h \o combined_text(inbox))
    /\ file_emails = <<>>
    /\ prompt = <<>>
    /\ results = PyNone
    /\ report = PyNone
    /\ previous_report = PyNone

NextRecords ==
    \/ extract_emails_from_professional_file
    \/ ReadExtractedFile
    \/ BuildPrompt

SpecRecords == InitRecords /\ [][NextRecords]_vars

-----------------------------------------------------------------------------
(* generate_summary_report *)

\* the literal texts and keys of generate_summary_report; an emoji is one
\* character, named by its code point
ReportText(w) ==
    CASE w = "title" -> << "C", "O", "M", "P", "R", "E", "H", "E", "N", "S", "I", "V", "E", " ",
              "E", "M", "A", "I", "L", " ", "A", "N", "A", "L", "Y", "S", "I", "S",
              " ", "R", "E", "P", "O", "R", "T", "\n" >>
      [] w = "Generated" -> << "G", "e", "n", "e", "r", "a", "t", "e", "d", ":", " " >>
      [] w = "Total" -> << "T", "o", "t", "a", "l", " ", "e", "m", "a", "i", "l", "s", " ", "a",
              "n", "a", "l", "y", "z", "e", "d", ":", " " >>
      [] w = "Analysis timestamp" -> << "A", "n", "a", "l", "y", "s", "i", "s", " ", "t", "i", "m", "e", "s",
              "t", "a", "m", "p", ":", " " >>
      [] w = "SUMMARY" -> <<"U+1F4CB">> \o << " ", "C", "O", "M", "P", "R", "E", "H", "E", "N", "S", "I", "V", "E",
              " ", "S", "U", "M", "M", "A", "R", "Y", "\n" >>
      [] w = "No summary available" -> << "N", "o", " ", "s", "u", "m", "m", "a", "r", "y", " ", "a", "v", "a",
              "i", "l", "a", "b", "l", "e" >>
      [] w = "HIGH PRIORITY" -> <<"U+1F6A8">> \o << " ", "H", "I", "G", "H", " ", "P", "R", "I", "O", "R", "I", "T", "Y",
              " ", "E", "M", "A", "I", "L", "S", "\n" >>
      [] w = "No high priority" -> << "N", "o", " ", "h", "i", "g", "h", " ", "p", "r", "i", "o", "r", "i",
              "t", "y", " ", "e", "m", "a", "i", "l", "s", " ", "i", "d", "e", "n",
              "t", "i", "f", "i", "e", "d", ".", "\n", "\n" >>
      [] w = "Email" -> <<"U+1F4E7">> \o << " ", "E", "m", "a", "i", "l", " " >>
      [] w = "N/A" -> << "N", "/", "A" >>
      [] w = "No Subject" -> << "N", "o", " ", "S", "u", "b", "j", "e", "c", "t" >>
      [] w = "From" -> << " ", " ", " ", "F", "r", "o", "m", ":", " " >>
      [] w = "Unknown" -> << "U", "n", "k", "n", "o", "w", "n" >>
      [] w = "Priority" -> << " ", " ", " ", "P", "r", "i", "o", "r", "i", "t", "y", ":", " " >>
      [] w = "Reason" -> << " ", " ", " ", "R", "e", "a", "s", "o", "n", ":", " " >>
      [] w = "No reason given" -> << "N", "o", " ", "r", "e", "a", "s", "o", "n", " ", "g", "i", "v", "e",
              "n" >>
      [] w = "Key Points" -> << " ", " ", " ", "K", "e", "y", " ", "P", "o", "i", "n", "t", "s", ":",
              " " >>
      [] w = "ACTION ITEMS" -> <<"U+2705">> \o << " ", "A", "C", "T", "I", "O", "N", " ", "I", "T", "E", "M", "S", "\n" >>
      [] w = "No action items" -> << "N", "o", " ", "a", "c", "t", "i", "o", "n", " ", "i", "t", "e", "m",
              "s", " ", "i", "d", "e", "n", "t", "i", "f", "i", "e", "d", ".", "\n",
              "\n" >>
      [] w = "No action specified" -> << "N", "o", " ", "a", "c", "t", "i", "o", "n", " ", "s", "p", "e", "c",
              "i", "f", "i", "e", "d" >>
      [] w = "Deadline" -> << " ", " ", " ", "D", "e", "a", "d", "l", "i", "n", "e", ":", " " >>
      [] w = "No deadline" -> << "N", "o", " ", "d", "e", "a", "d", "l", "i", "n", "e" >>
      [] w = "Source" -> << " ", " ", " ", "S", "o", "u", "r", "c", "e", ":", " " >>
      [] w = "Unknown email" -> << "U", "n", "k", "n", "o", "w", "n", " ", "e", "m", "a", "i", "l" >>
      [] w = "CATEGORIES" -> <<"U+1F4CA">> \o << " ", "E", "M", "A", "I", "L", " ", "C", "A", "T", "E", "G", "O", "R",
              "I", "E", "S", "\n" >>
      [] w = "batch of" -> << "b", "a", "t", "c", "h", " ", "o", "f", " " >>
      [] w = " email" -> << " ", "e", "m", "a", "i", "l" >>
      [] w = "email_number" -> << "e", "m", "a", "i", "l", "_", "n", "u", "m", "b", "e", "r" >>
      [] w = "subject" -> << "s", "u", "b", "j", "e", "c", "t" >>
      [] w = "sender" -> << "s", "e", "n", "d", "e", "r" >>
      [] w = "priority_level" -> << "p", "r", "i", "o", "r", "i", "t", "y", "_", "l", "e", "v", "e", "l" >>
      [] w = "reason_for_priority" -> << "r", "e", "a", "s", "o", "n", "_", "f", "o", "r", "_", "p", "r", "i",
              "o", "r", "i", "t", "y" >>
      [] w = "key_points" -> << "k", "e", "y", "_", "p", "o", "i", "n", "t", "s" >>
      [] w = "action" -> << "a", "c", "t", "i", "o", "n" >>
      [] w = "priority" -> << "p", "r", "i", "o", "r", "i", "t", "y" >>
      [] w = "deadline" -> << "d", "e", "a", "d", "l", "i", "n", "e" >>
      [] w = "source_email" -> << "s", "o", "u", "r", "c", "e", "_", "e", "m", "a", "i", "l" >>

UpperCase == << "A", "B", "C", "D", "E", "F", "G", "H", "I", "J", "K", "L", "M", "N", "O", "P",
      "Q", "R", "S", "T", "U", "V", "W", "X", "Y", "Z" >>
LowerCase == << "a", "b", "c", "d", "e", "f", "g", "h", "i", "j", "k", "l", "m", "n", "o", "p",
      "q", "r", "s", "t", "u", "v", "w", "x", "y", "z" >>
\* c with its case changed when it is a letter of the first alphabet
Recase(c, from, to) ==
    IF \E k \in 1..Len(from) : from[k] = c
    THEN to[CHOOSE k \in 1..Len(from) : from[k] = c]
    ELSE c

\* s.lower() and s.title() of a text of ASCII characters
lower(s) == [i \in 1..Len(s) |-> Recase(s[i], UpperCase, LowerCase)]
title(s) ==
    [i \in 1..Len(s) |->
       IF i > 1 /\ (\E k \in 1..Len(UpperCase) : s[i - 1] \in {UpperCase[k], LowerCase[k]})
       THEN Recase(s[i], UpperCase, LowerCase)
       ELSE Recase(s[i], LowerCase, UpperCase)]

\* datetime.now().strftime('%Y-%m-%d %H:%M:%S'): the clock reading as text
strftime(t) == DecimalText(t)

\* str(int(digits))
IntText(digits) ==
    IF \A i \in 1..Len(digits) : digits[i] = "0" THEN <<"0">>
    ELSE SubSeq(digits, Lowest({i \in 1..Len(digits) : digits[i] # "0"}), Len(digits))

\* re.search(r'batch of (\d+) emails?', s): the offsets at which it matches
BatchOfMatches(s) ==
    {a \in Occurrences(s, ReportText("batch of")) :
       /\ SkipDigits(s, a + 10) > a + 10
       /\ StartsWith(s, SkipDigits(s, a + 10), ReportText(" email"))}

\* match.group(1) of the leftmost match at offset a
BatchOfGroup(s, a) == SubSeq(s, a + 10, SkipDigits(s, a + 10) - 1)

\* lines 498-509: total_emails as it is written
total_emails(processed) ==
    IF Truthy(Get(processed, K_total_emails, PyNumber(<<"0">>)))
         \/ ~HasKey(processed, K_comprehensive_summary)
         \/ BatchOfMatches(lower(Get(processed, K_comprehensive_summary, PyStr(<<>>)).v)) = {}
    THEN Get(processed, K_total_emails, PyNumber(<<"0">>))
    ELSE PyNumber(IntText(BatchOfGroup(lower(Get(processed, K_comprehensive_summary, PyStr(<<>>)).v),
                                       Lowest(BatchOfMatches(
                                         lower(Get(processed, K_comprehensive_summary, PyStr(<<>>)).v))))))

\* lines 499-504: summary.lower() of a summary that is no text
SummaryRaises(processed) ==
    /\ ~Truthy(Get(processed, K_total_emails, PyNumber(<<"0">>)))
    /\ HasKey(processed, K_comprehensive_summary)
    /\ Get(processed, K_comprehensive_summary, PyStr(<<>>)).t # "str"

\* iterating xs and calling .get on each element raises: xs is no list, or an
\* element is no dict
ItemsRaise(xs) ==
    /\ Truthy(xs)
    /\ \/ xs.t # "list"
       \/ \E i \in 1..Len(xs.v) : xs.v[i].t # "dict"

\* ', '.join(key_points) raises
JoinRaises(key_points) ==
    \/ key_points.t \in {"None", "number", "bool"}
    \/ key_points.t = "list" /\ \E i \in 1..Len(key_points.v) : key_points.v[i].t # "str"

\* the texts ', '.join(key_points) joins: the items of a list, the characters
\* of a str, the keys of a dict
Joined(key_points) ==
    IF key_points.t = "list" THEN [i \in 1..Len(key_points.v) |-> key_points.v[i].v]
    ELSE IF key_points.t = "dict" THEN [i \in 1..Len(key_points.v) |-> key_points.v[i][1]]
    ELSE [i \in 1..Len(key_points.v) |-> <<key_points.v[i]>>]

\* the exceptions caught at line 573
RenderRaises(processed) ==
    \/ SummaryRaises(processed)
    \/ ItemsRaise(Get(processed, K_high_priority_emails, PyList(<<>>)))
    \/ /\ Truthy(Get(processed, K_high_priority_emails, PyList(<<>>)))
       /\ \E i \in 1..Len(Get(processed, K_high_priority_emails, PyList(<<>>)).v) :
         JoinRaises(Get(Get(processed, K_high_priority_emails, PyList(<<>>)).v[i],
                        ReportText("key_points"), PyList(<<>>)))
    \/ ItemsRaise(Get(processed, K_action_items, PyList(<<>>)))
    \/ /\ Truthy(Get(processed, K_email_categories, PyDict(<<>>)))
       /\ Get(processed, K_email_categories, PyDict(<<>>)).t # "dict"

\* lines 494-496, 511-512
ReportHead(processed, t) ==
    ReportText("title") \o Repeated("=", 60) \o <<"\n", "\n">>
      \o ReportText("Generated") \o strftime(t) \o <<"\n">>
      \o ReportText("Total") \o Str(total_emails(processed)) \o <<"\n">>
      \o ReportText("Analysis timestamp") \o IsoFormat(t) \o <<"\n", "\n">>

\* lines 515-517
SummarySection(processed) ==
    ReportText("SUMMARY") \o Repeated("-", 40) \o <<"\n">>
      \o Str(Get(processed, K_comprehensive_summary, PyStr(ReportText("No summary available"))))
      \o <<"\n", "\n">>

\* lines 525-530
HighPriorityEntry(email) ==
    ReportText("Email") \o Str(Get(email, ReportText("email_number"), PyStr(ReportText("N/A"))))
      \o <<":", " ">> \o Str(Get(email, ReportText("subject"), PyStr(ReportText("No Subject")))) \o <<"\n">>
      \o ReportText("From") \o Str(Get(email, ReportText("sender"), PyStr(ReportText("Unknown")))) \o <<"\n">>
      \o ReportText("Priority") \o Str(Get(email, ReportText("priority_level"), PyStr(ReportText("Unknown")))) \o <<"\n">>
      \o ReportText("Reason")
      \o Str(Get(email, ReportText("reason_for_priority"), PyStr(ReportText("No reason given")))) \o <<"\n">>
      \o ReportText("Key Points")
      \o join(<<",", " ">>, Joined(Get(email, ReportText("key_points"), PyList(<<>>)))) \o <<"\n">>
      \o Repeated("-", 30) \o <<"\n", "\n">>

\* lines 546-550: the entry of the action item at index i (from 1)
ActionItemEntry(i, item) ==
    DecimalText(i) \o <<".", " ">>
      \o Str(Get(item, ReportText("action"), PyStr(ReportText("No action specified")))) \o <<"\n">>
      \o ReportText("Priority") \o Str(Get(item, ReportText("priority"), PyStr(ReportText("Unknown")))) \o <<"\n">>
      \o ReportText("Deadline") \o Str(Get(item, ReportText("deadline"), PyStr(ReportText("No deadline")))) \o <<"\n">>
      \o ReportText("Source") \o Str(Get(item, ReportText("source_email"), PyStr(ReportText("Unknown email")))) \o <<"\n">>
      \o Repeated("-", 20) \o <<"\n", "\n">>

\* the texts written one after the other
RECURSIVE Concat(_)
Concat(pieces) == IF pieces = <<>> THEN <<>> ELSE pieces[1] \o Concat(Tail(pieces))

\* lines 520-535
HighPrioritySection(high_priority) ==
    ReportText("HIGH PRIORITY") \o Repeated("-", 40) \o <<"\n">>
      \o (IF Truthy(high_priority)
          THEN Concat([i \in 1..Len(high_priority.v) |-> HighPriorityEntry(high_priority.v[i])])
          ELSE ReportText("No high priority"))

\* lines 538-554
ActionItemsSection(action_items) ==
    ReportText("ACTION ITEMS") \o Repeated("-", 40) \o <<"\n">>
      \o (IF Truthy(action_items)
          THEN Concat([i \in 1..Len(action_items.v) |-> ActionItemEntry(i, action_items.v[i])])
          ELSE ReportText("No action items"))

\* a faulty variant of CategoriesSection: the section is written for an empty map too
CategoriesSectionAlways(categories) ==
    ReportText("CATEGORIES") \o Repeated("-", 40) \o <<"\n">>
      \o (IF Truthy(categories)
          THEN Concat([i \in 1..Len(categories.v) |->
                         title(categories.v[i][1]) \o <<":", " ">> \o Str(categories.v[i][2]) \o <<"\n">>])
          ELSE <<>>)
      \o <<"\n">>

\* lines 557-563
CategoriesSection(categories) ==
    IF Truthy(categories)
    THEN ReportText("CATEGORIES") \o Repeated("-", 40) \o <<"\n">>
           \o Concat([i \in 1..Len(categories.v) |->
                        title(categories.v[i][1]) \o <<":", " ">> \o Str(categories.v[i][2]) \o <<"\n">>])
           \o <<"\n">>
    ELSE <<>>

\* lines 485-575: the content of the report file, or None after an exception
generate_summary_report(processed, t) ==
    IF RenderRaises(processed) THEN PyNone
    ELSE PyStr(ReportHead(processed, t)
                 \o SummarySection(processed)
                 \o HighPrioritySection(Get(processed, K_high_priority_emails, PyList(<<>>)))
                 \o ActionItemsSection(Get(processed, K_action_items, PyList(<<>>)))
                 \o CategoriesSection(Get(processed, K_email_categories, PyDict(<<>>))))

\* the analysis results handed to the report: entries with every field and
\* with none, an element that is no dict, fields that are null
UrgentInvoice ==
    PyDict(<< <<ReportText("email_number"), PyNumber(<<"1">>)>>,
              <<ReportText("subject"), PyStr(<< "I", "n", "v", "o", "i", "c", "e", " ", "D", "u", "e" >>)>>,
              <<ReportText("sender"), PyStr(<< "b", "i", "l", "l", "i", "n", "g", "@", "x", ".", "c", "o", "m" >>)>>,
              <<ReportText("priority_level"), PyStr(<< "h", "i", "g", "h" >>)>>,
              <<ReportText("reason_for_priority"), PyStr(<< "P", "a", "y", "m", "e", "n", "t", " ", "d", "u", "e", " ", "F",
                      "r", "i", "d", "a", "y" >>)>>,
              <<ReportText("key_points"), PyList(<<PyStr(<< "p", "a", "y" >>), PyStr(<< "b", "y", " ", "F", "r", "i", "d", "a", "y" >>)>>)>> >>)

PayInvoice ==
    PyDict(<< <<ReportText("action"), PyStr(<< "P", "a", "y", " ", "t", "h", "e", " ", "i", "n", "v", "o", "i",
                      "c", "e" >>)>>,
              <<ReportText("priority"), PyStr(<< "h", "i", "g", "h" >>)>>,
              <<ReportText("deadline"), PyStr(<< "F", "r", "i", "d", "a", "y" >>)>>,
              <<ReportText("source_email"), PyStr(<< "E", "m", "a", "i", "l", " ", "1" >>)>> >>)

HighPriorityLists ==
    {PyNone, PyList(<<>>), PyList(<<UrgentInvoice>>), PyList(<<UrgentInvoice, PyDict(<<>>)>>),
     PyList(<<PyStr(<<"?">>)>>)}
ActionItemLists == {PyNone, PyList(<<>>), PyList(<<PayInvoice>>), PyList(<<PyDict(<<>>), PayInvoice>>)}
CategoryMaps ==
    {PyDict(<<>>),
     PyDict(<< <<<< "w", "o", "r", "k" >>, PyNumber(<<"2">>)>>,
               <<<< "p", "e", "r", "s", "o", "n", "a", "l", " ", "l", "i", "f", "e" >>, PyNumber(<<"0">>)>> >>)}
CountsAndSummaries ==
    { <<PyNumber(<<"2">>), PyStr(<< "T", "w", "o", " ", "i", "n", "v", "o", "i", "c", "e", "s", " ",
                      "a", "r", "e", " ", "d", "u", "e", "." >>)>>,
      <<PyNumber(<<"0">>), PyStr(<< "A", " ", "B", "a", "t", "c", "h", " ", "o", "f", " ", "1", "2",
                      " ", "e", "m", "a", "i", "l", "s", " ", "a", "r", "r", "i", "v",
                      "e", "d", "." >>)>>,
      <<PyNumber(<<"0">>), PyNone>> }

Results ==
    { PyDict(<< <<K_total_emails, cs[1]>>,
                <<K_comprehensive_summary, cs[2]>>,
                <<K_high_priority_emails, h>>,
                <<K_action_items, a>>,
                <<K_email_categories, c>> >>) :
        cs \in CountsAndSummaries, h \in HighPriorityLists, a \in ActionItemLists,
        c \in CategoryMaps }

\* run_llm_processor.py lines 54-56: the report of the results is written and
\* read back, at most twice
RenderReport ==
    /\ stage \in {"analysed", "rendered"}
    /\ Truthy(results)
    /\ previous_report' = report
    /\ report' = generate_summary_report(results, now)
    /\ stage' = IF stage = "analysed" THEN "rendered" ELSE "rendered again"
    /\ UNCHANGED <<inbox, content, file_emails, prompt, results>>
    /\ UNCHANGED call_vars
    /\ UNCHANGED main_vars

InitReport ==
    /\ IdleClient
    /\ NoWorkflow
    /\ stage = "analysed"
    /\ results \in Results
    /\ inbox = <<>>
    /\ content = <<>>
    /\ file_emails = <<>>
    /\ prompt = <<>>
    /\ report = PyNone
    /\ previous_report = PyNone

NextReport ==
    \/ RenderReport
    \/ Tick(0)

SpecReport == InitReport /\ [][NextReport]_vars

-----------------------------------------------------------------------------
(* main.py: the workflow *)

\* lines 84-90
required_files ==
    {"gmail_retriever.py", "create_combined_summary.py", "email_llm_processor.py",
     ".env", "professional_credentials.json"}

\* lines 113, 126, 149
professional_emails_file == "todays_emails_professional.json"
final_report == "today_email_summary_report.txt"
executive_summary_file == "executive_summary.txt"

\* how subprocess.run(command, shell=True, check=True, ...) ends: it returns,
\* or raises CalledProcessError on a non-zero exit status
CommandOutcomes == {"ok", "CalledProcessError"}

\* a faulty variant of run_command: True whatever the command did
RunCommandAlwaysTrue(outcome) == TRUE

\* run_command, lines 16-38: True, and False after CalledProcessError
run_command(outcome) == outcome = "ok"

\* check_file_exists, lines 40-47
check_file_exists(present, filename) == filename \in present

\* the files after a command that may have written its output file
AfterCommand(present, output, written) ==
    IF written THEN present \cup {output} ELSE present

\* the steps whose command has failed, after the command of step
Failed(step, outcome) ==
    IF outcome = "ok" THEN failed_commands ELSE failed_commands \cup {step}

\* lines 82-101: the required files
CheckRequiredFiles ==
    /\ main_pc = "start"
    /\ main_pc' = IF \A f \in required_files : check_file_exists(files, f)
                  THEN "step1" ELSE "stopped"
    /\ UNCHANGED <<files, console, failed_commands>>
    /\ UNCHANGED call_vars
    /\ UNCHANGED doc_vars

\* lines 103-116: step 1, python gmail_retriever.py
RetrieveEmails ==
    /\ main_pc = "step1"
    /\ \E outcome \in CommandOutcomes, written \in BOOLEAN :
         /\ console' = Append(console, "retrieve")
         /\ files' = AfterCommand(files, professional_emails_file, written)
         /\ failed_commands' = Failed("retrieve", outcome)
         /\ main_pc' = IF ~run_command(outcome) THEN "stopped"
                       ELSE IF ~check_file_exists(files', professional_emails_file)
                       THEN "stopped"
                       ELSE "step2"
    /\ UNCHANGED call_vars
    /\ UNCHANGED doc_vars

\* lines 118-131: step 2, python create_combined_summary.py
CreateSummaryReport ==
    /\ main_pc = "step2"
    /\ \E outcome \in CommandOutcomes, written \in BOOLEAN :
         /\ console' = Append(console, "summarize")
         /\ files' = AfterCommand(files, final_report, written)
         /\ failed_commands' = Failed("summarize", outcome)
         /\ main_pc' = IF ~run_command(outcome) THEN "stopped"
                       ELSE IF ~check_file_exists(files', final_report)
                       THEN "stopped"
                       ELSE "step3"
    /\ UNCHANGED call_vars
    /\ UNCHANGED doc_vars

\* lines 133-138 and display_report, lines 49-73: step 3
DisplayReport ==
    /\ main_pc = "step3"
    /\ console' = Append(console, "display")
    /\ main_pc' = "step4"
    /\ UNCHANGED <<files, failed_commands>>
    /\ UNCHANGED call_vars
    /\ UNCHANGED doc_vars

\* lines 140-166: step 4, python generate_executive_summary.py, and the
\* preview of the file when it exists
GenerateStorytelling ==
    /\ main_pc = "step4"
    /\ \E outcome \in CommandOutcomes, written \in BOOLEAN :
         /\ console' = Append(console, "storytelling")
         /\ files' = AfterCommand(files, executive_summary_file, written)
         /\ failed_commands' = Failed("storytelling", outcome)
         /\ main_pc' = "step5"
    /\ UNCHANGED call_vars
    /\ UNCHANGED doc_vars

\* lines 168-187: step 5, python cleanup_temp_files.py, and the completion
\* message
CleanupTempFiles ==
    /\ main_pc = "step5"
    /\ \E outcome \in CommandOutcomes :
         /\ console' = console \o <<"cleanup", "completed">>
         /\ failed_commands' = Failed("cleanup", outcome)
         /\ main_pc' = "completed"
    /\ UNCHANGED files
    /\ UNCHANGED call_vars
    /\ UNCHANGED doc_vars

\* main() starts in a directory that holds any of the files it looks for
InitMain ==
    /\ IdleClient
    /\ NoDocument
    /\ main_pc = "start"
    /\ files \in SUBSET (required_files
                          \cup {professional_emails_file, final_report,
                                executive_summary_file})
    /\ console = <<>>
    /\ failed_commands = {}

NextMain ==
    \/ CheckRequiredFiles
    \/ RetrieveEmails
    \/ CreateSummaryReport
    \/ DisplayReport
    \/ GenerateStorytelling
    \/ CleanupTempFiles

\* every command returns, and main() goes on after it
SpecMain == InitMain /\ [][NextMain]_vars /\ WF_vars(NextMain)

-----------------------------------------------------------------------------
(* Properties *)

tracker == client.usage_tracker
IsGoogle == client.provider = "google"
EmptyList == PyList(<<>>)

\* C1: through one client, no more than requests_per_minute (15) admissions
\* fall inside any 60-second window, whether the sends succeed or fail.
\* (Under SpecMinute admit_log holds the admissions of the 60 seconds that
\* end now.)
C1_PerMinuteAdmissions == Len(admit_log) <= requests_per_minute

\* C2: through one client, no more than requests_per_day (1000) admissions
\* fall inside any 24-hour window, whether the sends succeed or fail.
C2_PerDayAdmissions == admits_24h <= requests_per_day

\* C3: when requests_today >= requests_per_day at the call of the admission
\* check, the check raises the daily-limit error, the call issues no HTTP
\* request and admits nothing; and requests_today, once at the limit, stays
\* there, so every later check fails the same way.
C3_DailyQuotaFails ==
    /\ [][(pc = "batch" /\ IsGoogle /\ tracker.requests_today >= requests_per_day)
            => (pc' = "raised" /\ error' = "DailyLimit" /\ ~admitted'
                /\ http_requests' = 0 /\ admits_24h' = admits_24h)]_vars
    /\ [][tracker.requests_today >= requests_per_day
            => client'.usage_tracker.requests_today >= requests_per_day]_vars

\* C3 witness: the check made after 1000 successful sends raised the
\* daily-limit error and no request was issued.
C3_Witness ==
    /\ tracker.requests_today = requests_per_day
    /\ pc = "raised"
    /\ error = "DailyLimit"
    /\ http_requests = 0

\* C4: _parse_batch_response raises for no text: once the parser has run,
\* no exception is propagating and the call has returned a result object.
C4_ParserNeverRaises ==
    (status = "ok" /\ pc # "parse") => (error = None /\ returned.t = "dict")

\* C5: in every analysis result, high_priority_emails, action_items and
\* email_categories are not None.
C5_FieldsNotNone ==
    (pc = "idle" /\ returned.t = "dict") =>
        /\ Get(returned, K_high_priority_emails, PyNone).t # "None"
        /\ Get(returned, K_action_items, PyNone).t # "None"
        /\ Get(returned, K_email_categories, PyNone).t # "None"

C7_EveryProviderAdmits == http_requests > 0 => admitted

\* C7 (amended): with the google provider a call that has issued its request
\* has passed the admission check first; with the other providers no call
\* ever runs the admission check.
C7_GoogleAdmitsBeforeRequest ==
    /\ (IsGoogle /\ http_requests > 0) => admitted
    /\ ~IsGoogle => ~admitted

\* C7 witness: a google call was admitted and its request is in flight.
C7_Witness == IsGoogle /\ pc = "post" /\ admitted /\ http_requests = 1

\* C8: a send starts at least min_delay_between_requests (4 s) after the end
\* of the previous send, whether that send succeeded or failed.
C8_MinDelayBetweenSends ==
    (IsGoogle /\ pc = "post" /\ send_end >= 0) =>
        send_start - send_end >= min_delay_between_requests

C10_AllFieldsPresent ==
    returned.t = "dict" =>
        /\ \A i \in 1..Len(AnalysisKeys) : HasKey(returned, AnalysisKeys[i])
        /\ Len(returned.v) = Len(AnalysisKeys)

\* C10 witness: the result of a text that the structured parse rejected and
\* the key extraction could not use has all eight fields.
C10_Witness ==
    /\ raw_text = <<"}", "{">>
    /\ returned.t = "dict"
    /\ Get(returned, K_comprehensive_summary, PyNone) = PyStr(<<"}", "{">>)
    /\ \A i \in 1..Len(AnalysisKeys) : HasKey(returned, AnalysisKeys[i])

\* C13: when no summary can be extracted from the raw text (it has no brace,
\* or the structured parse and the key extraction both fail), the
\* comprehensive_summary of the result is the raw text when it has at most
\* 200 characters, and else its first 200 characters and the ellipsis.
C13_FallbackSummaryCutAt200 ==
    (/\ pc = "idle" /\ status = "ok" /\ returned.t = "dict"
     /\ \/ ~(Contains(raw_text, <<"{">>) /\ Contains(raw_text, <<"}">>))
        \/ (/\ json_loads(JsonCandidate(StripFences(raw_text))).err = "JSONDecodeError"
            /\ ~ExtractSummary(StripFences(raw_text)).found))
    => Get(returned, K_comprehensive_summary, PyNone) =
         PyStr(IF Len(raw_text) <= 200 THEN raw_text
               ELSE SubSeq(raw_text, 1, 200) \o <<".", ".", ".">>)

\* C14: prose followed by a fenced JSON object that holds only
\* comprehensive_summary is parsed as that object: the summary is its value
\* "All clear.", the three collections are empty, and no fallback stage left
\* a processing note.
C14_FencedObjectParsed ==
    (pc = "idle" /\ raw_text = FencedAnswer) =>
        /\ returned.t = "dict"
        /\ Get(returned, K_comprehensive_summary, PyNone) = PyStr(AllClear)
        /\ Get(returned, K_high_priority_emails, PyNone) = PyList(<<>>)
        /\ Get(returned, K_action_items, PyNone) = PyList(<<>>)
        /\ Get(returned, K_email_categories, PyNone) = PyDict(<<>>)
        /\ Get(returned, K_processing_notes, PyNone) = PyStr(<<>>)

\* C14 witness: the fenced answer has been parsed and its result returned.
C14_Witness ==
    /\ pc = "idle"
    /\ raw_text = FencedAnswer
    /\ Get(returned, K_comprehensive_summary, PyNone) = PyStr(AllClear)

\* C18: every step that moves minute_start_time (the reset on elapsed time,
\* after a request-count wait and after a token-count wait) leaves both
\* requests_this_minute and tokens_this_minute at zero.
C18_ResetZeroesBothCounters ==
    [][(tracker'.minute_start_time # tracker.minute_start_time)
         => (tracker'.requests_this_minute = 0 /\ tracker'.tokens_this_minute = 0)]_vars

\* C19: the three counters are never negative, and no step moves
\* minute_start_time backward while the clock does not decrease.
C19_CountersNonNegativeWindowForward ==
    /\ [](/\ tracker.requests_this_minute >= 0
          /\ tracker.tokens_this_minute >= 0
          /\ tracker.requests_today >= 0)
    /\ [][(now' >= now)
            => (tracker'.minute_start_time >= tracker.minute_start_time)]_vars

\* C19 witness: after a successful send the window has been reset at a later
\* clock value and a further send has been counted in the new window.
C19_Witness ==
    /\ IsGoogle
    /\ tracker.minute_start_time > ClockStart
    /\ tracker.requests_this_minute > 0
    /\ tracker.tokens_this_minute > 0
    /\ tracker.requests_today > tracker.requests_this_minute

\* C20 as stated: whatever the provider, a successful send adds 1 to
\* requests_this_minute and to requests_today, floor(len(prompt)/4) to
\* tokens_this_minute and sets last_request_time to now.
C20_EverySuccessfulSendCounts ==
    [][(pc = "post" /\ pc' = "parse" /\ status' = "ok") =>
         /\ tracker'.requests_this_minute = tracker.requests_this_minute + 1
         /\ tracker'.requests_today = tracker.requests_today + 1
         /\ tracker'.tokens_this_minute = tracker.tokens_this_minute + (prompt_len \div 4)
         /\ tracker'.last_request_time = now]_vars

\* C20 amended: with the google provider an answer with a 2xx status adds
\* exactly 1, 1 and floor(len(prompt)/4) and sets last_request_time to now,
\* an answer with another status leaves the tracker unchanged, and no other
\* step increases a counter or touches last_request_time; with the other
\* providers the tracker never changes.
C20_GoogleCountsAfter2xxOnly ==
    [][IF ~IsGoogle THEN tracker' = tracker
       ELSE IF pc = "post" /\ pc' # "post"
       THEN IF status' \in {"ok", "malformed"}
            THEN tracker' =
                   [tracker EXCEPT
                      !.requests_this_minute = @ + 1,
                      !.requests_today = @ + 1,
                      !.tokens_this_minute = @ + (prompt_len \div 4),
                      !.last_request_time = now]
            ELSE tracker' = tracker
       ELSE /\ tracker'.requests_this_minute <= tracker.requests_this_minute
            /\ tracker'.tokens_this_minute <= tracker.tokens_this_minute
            /\ tracker'.requests_today <= tracker.requests_today
            /\ tracker'.last_request_time = tracker.last_request_time]_vars

\* C20 witness: a google send has been answered with a non-2xx status after
\* an earlier send was answered successfully and counted.
C20_Witness ==
    /\ IsGoogle
    /\ pc = "raised" /\ error = "HTTPError"
    /\ tracker.requests_today > 0
    /\ tracker.tokens_this_minute > 0
    /\ tracker.last_request_time > 0

\* C11: writing any sequence of records to the flat text format and reading
\* the text back returns as many records, each with the title, sender, date
\* and text it was written with, also when a value holds a label or the
\* record-start token.
C11_WriteThenReadIsIdentity ==
    (stage = "parsed" /\ content = combined_text(inbox)) =>
        file_emails =
          [i \in 1..Len(inbox) |->
             PyDict(<< <<K_title, Get(inbox[i], Label("subject"), PyNone)>>,
                       <<K_sender, Get(inbox[i], Label("sender"), PyNone)>>,
                       <<K_date, Get(inbox[i], Label("date"), PyNone)>>,
                       <<K_text, EntryContent(Get(inbox[i], Label("body"), PyNone),
                                              Get(inbox[i], Label("snippet"), PyNone))>> >>)]

\* C12: the records read from a file are those of its sections that have a
\* title and a text, in the order of the sections, and the text before the
\* first record-start token yields no record; the file of the two records
\* Invoice Due and Newsletter yields exactly these two, in that order.
C12_RecordsInSectionOrder ==
    (stage = "parsed" /\ \A i \in 1..Len(inbox) : inbox[i] \in PlainMessages \cup {Untitled}) =>
        /\ [i \in 1..Len(file_emails) |-> Get(file_emails[i], K_title, PyNone)]
             = SelectSeq([i \in 1..Len(inbox) |-> Get(inbox[i], Label("subject"), PyNone)],
                         Truthy)
        /\ (inbox = <<InvoiceDue, Newsletter>>) =>
             /\ Len(file_emails) = 2
             /\ Get(file_emails[1], K_title, PyNone) = Get(InvoiceDue, Label("subject"), PyNone)
             /\ Get(file_emails[1], K_text, PyNone) = Get(InvoiceDue, Label("body"), PyNone)
             /\ Get(file_emails[2], K_title, PyNone) = Get(Newsletter, Label("subject"), PyNone)
             /\ Get(file_emails[2], K_text, PyNone) = Get(Newsletter, Label("body"), PyNone)

\* C12 witness: the file of Invoice Due and Newsletter, begun by a header,
\* has been read.
C12_Witness ==
    /\ stage = "parsed"
    /\ inbox = <<InvoiceDue, Newsletter>>
    /\ content # combined_text(inbox)
    /\ Len(file_emails) = 2

\* C17: the prompt holds one block per record, numbered from 1 in input
\* order, whose content line is the record's text, unchanged and without a
\* truncation marker when it has at most 500 characters, and else its first
\* 500 characters followed by the ellipsis.
C17_BlocksCutOnlyWhenLong ==
    (stage = "prompted") =>
        \A i \in 1..Len(file_emails) :
            Contains(prompt,
                     PromptText("Email ") \o DecimalText(i)
                       \o PromptText("Subject") \o Get(file_emails[i], K_title, PyNone).v
                       \o PromptText("From") \o Get(file_emails[i], K_sender, PyNone).v
                       \o PromptText("Date") \o Get(file_emails[i], K_date, PyNone).v
                       \o PromptText("Content")
                       \o (IF Len(Get(file_emails[i], K_text, PyNone).v) > 500
                           THEN SubSeq(Get(file_emails[i], K_text, PyNone).v, 1, 500)
                                  \o <<".", ".", ".">>
                           ELSE Get(file_emails[i], K_text, PyNone).v)
                       \o <<"\n">>)

\* C15: a rendered report holds "No action items identified." when
\* action_items is empty and "No high priority emails identified." when
\* high_priority_emails is empty, holds no category section when
\* email_categories is empty, and its summary, high-priority, action-item and
\* category sections come in this order.
C15_ReportSections ==
    (stage # "analysed" /\ report # PyNone) =>
        /\ ~Truthy(Get(results, K_action_items, PyNone))
             => Contains(report.v, << "N", "o", " ", "a", "c", "t", "i", "o", "n", " ", "i", "t", "e",
                      "m", "s", " ", "i", "d", "e", "n", "t", "i", "f", "i", "e", "d",
                      "." >>)
        /\ ~Truthy(Get(results, K_high_priority_emails, PyNone))
             => Contains(report.v, << "N", "o", " ", "h", "i", "g", "h", " ", "p", "r", "i", "o", "r",
                      "i", "t", "y", " ", "e", "m", "a", "i", "l", "s", " ", "i", "d",
                      "e", "n", "t", "i", "f", "i", "e", "d", "." >>)
        /\ Truthy(Get(results, K_email_categories, PyNone))
             <=> Contains(report.v, << "E", "M", "A", "I", "L", " ", "C", "A", "T", "E", "G", "O", "R",
                      "I", "E", "S" >>)
        /\ find(report.v, << "C", "O", "M", "P", "R", "E", "H", "E", "N", "S", "I", "V", "E",
                      " ", "S", "U", "M", "M", "A", "R", "Y" >>, 0) > 0
        /\ find(report.v, << "H", "I", "G", "H", " ", "P", "R", "I", "O", "R", "I", "T", "Y",
                      " ", "E", "M", "A", "I", "L", "S" >>, 0)
             > find(report.v, << "C", "O", "M", "P", "R", "E", "H", "E", "N", "S", "I", "V", "E",
                      " ", "S", "U", "M", "M", "A", "R", "Y" >>, 0)
        /\ find(report.v, << "A", "C", "T", "I", "O", "N", " ", "I", "T", "E", "M", "S" >>, 0)
             > find(report.v, << "H", "I", "G", "H", " ", "P", "R", "I", "O", "R", "I", "T", "Y",
                      " ", "E", "M", "A", "I", "L", "S" >>, 0)
        /\ Truthy(Get(results, K_email_categories, PyNone))
             => find(report.v, << "E", "M", "A", "I", "L", " ", "C", "A", "T", "E", "G", "O", "R",
                      "I", "E", "S" >>, 0)
                  > find(report.v, << "A", "C", "T", "I", "O", "N", " ", "I", "T", "E", "M", "S" >>, 0)

\* C15 witness: a report of a result without action items, without high
\* priority emails and without categories has been rendered.
C15_Witness ==
    /\ stage = "rendered"
    /\ report # PyNone
    /\ Get(results, K_action_items, PyNone) = PyList(<<>>)
    /\ Get(results, K_high_priority_emails, PyNone) = PyList(<<>>)
    /\ Get(results, K_email_categories, PyNone) = PyDict(<<>>)

\* C16: two reports rendered of the same analysis result, at whatever times,
\* have the same text.
C16_SameResultSameReport ==
    (stage = "rendered again" /\ report # PyNone /\ previous_report # PyNone)
        => report = previous_report

\* C21 as stated: when the structured parse succeeds and the object has no
\* comprehensive_summary, the summary of the result is the raw text cut to
\* 500 characters with the ellipsis.
C21_MissingSummaryIsRawText ==
    (/\ pc = "idle" /\ status = "ok" /\ returned.t = "dict"
     /\ Contains(StripFences(raw_text), <<"{">>) /\ Contains(StripFences(raw_text), <<"}">>)
     /\ json_loads(JsonCandidate(StripFences(raw_text))).err = None
     /\ ~HasKey(json_loads(JsonCandidate(StripFences(raw_text))).val, K_comprehensive_summary))
    => Get(returned, K_comprehensive_summary, PyNone) =
         PyStr(IF Len(raw_text) > 500
               THEN SubSeq(raw_text, 1, 500) \o <<".", ".", ".">>
               ELSE raw_text)

\* C21 amended: when the structured parse succeeds, a field absent from the
\* parsed object has its default in the result: "No summary generated" for
\* comprehensive_summary, the empty list for high_priority_emails and
\* action_items, the empty map for email_categories.
C21_AbsentFieldsGetDefaults ==
    (/\ pc = "idle" /\ status = "ok" /\ returned.t = "dict"
     /\ Contains(StripFences(raw_text), <<"{">>) /\ Contains(StripFences(raw_text), <<"}">>)
     /\ json_loads(JsonCandidate(StripFences(raw_text))).err = None)
    => /\ ~HasKey(json_loads(JsonCandidate(StripFences(raw_text))).val, K_comprehensive_summary)
            => Get(returned, K_comprehensive_summary, PyNone)
                 = PyStr(<<"N", "o", " ", "s", "u", "m", "m", "a", "r", "y", " ",
                           "g", "e", "n", "e", "r", "a", "t", "e", "d">>)
       /\ ~HasKey(json_loads(JsonCandidate(StripFences(raw_text))).val, K_high_priority_emails)
            => Get(returned, K_high_priority_emails, PyNone) = PyList(<<>>)
       /\ ~HasKey(json_loads(JsonCandidate(StripFences(raw_text))).val, K_action_items)
            => Get(returned, K_action_items, PyNone) = PyList(<<>>)
       /\ ~HasKey(json_loads(JsonCandidate(StripFences(raw_text))).val, K_email_categories)
            => Get(returned, K_email_categories, PyNone) = PyDict(<<>>)

\* C21 witness: the empty object has been parsed and every field of the
\* result is a default.
C21_Witness ==
    /\ pc = "idle" /\ status = "ok"
    /\ raw_text = <<"{", "}">>
    /\ returned.t = "dict"
    /\ Get(returned, K_action_items, PyNone) = PyList(<<>>)

\* the stage of _parse_batch_response that produces the result of a text
\* without fences: the structured parse, the extraction of the key, the
\* raw-text fallback after a failed parse, or the branch without braces
StageOfStripped(response) ==
    IF ~(Contains(response, <<"{">>) /\ Contains(response, <<"}">>)) THEN "no braces"
    ELSE IF json_loads(JsonCandidate(response)).err = None THEN "structured"
    ELSE IF ExtractSummary(response).found THEN "key extraction"
    ELSE "raw text"

\* C22: the processing_notes of two results produced by different stages of
\* the parser are never equal.
C22_NotesTellStagesApart ==
    (pc = "idle" /\ status = "ok" /\ returned.t = "dict") =>
        \A other \in AnswerTexts :
            (/\ _parse_batch_response(other).raised = None
             /\ StageOfStripped(StripFences(other)) # StageOfStripped(StripFences(raw_text)))
            => Get(_parse_batch_response(other).value, K_processing_notes, PyStr(<<>>))
                 # Get(returned, K_processing_notes, PyNone)

\* C23: a section that has a usable title or a content is kept, its missing
\* field filled with the default: the file written from messages that all
\* have a content yields one record per message, with the title 'No Subject'
\* where the subject is empty, and the other records as they are.
C23_SectionWithContentIsKept ==
    (/\ stage = "parsed"
     /\ content = combined_text(inbox)
     /\ \A i \in 1..Len(inbox) : inbox[i] \in PlainMessages \cup {Untitled})
    => /\ Len(file_emails) = Len(inbox)
       /\ \A i \in 1..Len(inbox) :
            Get(file_emails[i], K_title, PyNone) =
              IF inbox[i] = Untitled THEN PyStr(Label("No Subject"))
              ELSE Get(inbox[i], Label("subject"), PyNone)

\* the position of the opening quote of the value: the first '"' at or after
\* the first ':' at or after the first quoted key, -1 when one is missing
C24_Following(response, w, from) == IF from = -1 THEN -1 ELSE find(response, w, from)
C24_Open(response) ==
    C24_Following(response, <<"\"">>,
        C24_Following(response, <<":">>, find(response, QuotedKey, 0)))
C24_Close(response, open) == IF open = -1 THEN -1 ELSE find(response, <<"\"">>, open + 1)
C24_Value(response, open, close) ==
    IF close = -1 THEN <<>> ELSE Slice(response, open + 1, close)
C24_Summary(response, value) ==
    IF strip(value) # <<>> THEN value
    ELSE IF Len(response) > 200 THEN SubSeq(response, 1, 200) \o <<".", ".", ".">>
    ELSE response
C24_Expected(response, open) ==
    C24_Summary(response, C24_Value(response, open, C24_Close(response, open)))

\* C24: when the text has braces and the structured parse fails with a JSON
\* error, the parser returns a result whose three collections are empty and
\* whose summary is the text between the first '"' after the first colon
\* after the quoted key and the next '"' when all of them exist and that
\* text is not blank, and else the raw-text fallback (the text, cut at 200
\* characters with the ellipsis).
C24_KeyExtractionOrRawText ==
    (/\ pc = "idle" /\ status = "ok"
     /\ Contains(StripFences(raw_text), <<"{">>) /\ Contains(StripFences(raw_text), <<"}">>)
     /\ json_loads(JsonCandidate(StripFences(raw_text))).err = "JSONDecodeError")
    => /\ returned.t = "dict"
       /\ Get(returned, K_comprehensive_summary, PyNone) =
            PyStr(C24_Expected(StripFences(raw_text), C24_Open(StripFences(raw_text))))
       /\ Get(returned, K_high_priority_emails, PyNone) = PyList(<<>>)
       /\ Get(returned, K_action_items, PyNone) = PyList(<<>>)
       /\ Get(returned, K_email_categories, PyNone) = PyDict(<<>>)

\* C24 witness: the summary 'All clear.' has been extracted from an object
\* with a stray word after the value.
C24_Witness ==
    /\ pc = "idle" /\ status = "ok"
    /\ raw_text = Object1(K_comprehensive_summary, Quoted(AllClear) \o <<" ", "x">>)
    /\ Get(returned, K_comprehensive_summary, PyNone) = PyStr(AllClear)

\* C24 witness of the other half: the value is never closed, and the result
\* is the raw text.
C24_WitnessFallThrough ==
    /\ pc = "idle" /\ status = "ok"
    /\ raw_text = UnclosedValue
    /\ Get(returned, K_comprehensive_summary, PyNone) = PyStr(UnclosedValue)

\* C25: every call of _check_rate_limits that does not raise the daily-limit
\* exception returns after a bounded wait: the request goes out at most
\* minute_seconds (one wait for the rest of the window) plus
\* min_delay_between_requests after the call, and never before it; a
\* provider without rate limits is not delayed at all.
C25_AdmissionWaitIsBounded ==
    [][(pc = "batch" /\ pc' = "post") =>
         IF HasRateLimits(client.provider)
         THEN \E window_wait \in 0..minute_seconds, delay \in 0..min_delay_between_requests :
                 now' = now + window_wait + delay
         ELSE now' = now]_vars

\* C25 witness: with the clock moved by the waits only, a request went out
\* more than min_delay_between_requests after the previous answer, that is
\* after a wait for the rest of the window.
C25_Witness ==
    /\ pc = "post" /\ admitted /\ ticks = 0
    /\ send_end # -1
    /\ send_start - send_end > min_delay_between_requests

\* C26: in every reachable state of a client the counter of the requests of
\* the current window is at most requests_per_minute.
C26_RequestsThisMinuteWithinLimit ==
    client.usage_tracker.requests_this_minute <= requests_per_minute

\* C26 witness: the counter stands at the limit, and the next call is about
\* to be checked against it.
C26_Witness ==
    /\ pc = "batch"
    /\ client.usage_tracker.requests_this_minute = requests_per_minute

\* C27: the tokens counted before a send are below tokens_per_minute: right
\* after every send that is counted, tokens_this_minute less the estimate of
\* that send is below the limit.
C27_OnlyLastSendExceedsTokenLimit ==
    [][(pc = "post"
        /\ client'.usage_tracker.requests_today = client.usage_tracker.requests_today + 1)
       => /\ client'.usage_tracker.tokens_this_minute
               = client.usage_tracker.tokens_this_minute + EstimatedTokens(prompt_len)
          /\ client'.usage_tracker.tokens_this_minute - EstimatedTokens(prompt_len)
               < tokens_per_minute]_vars

\* C27 witness: the send just counted has taken tokens_this_minute above the
\* limit.
C27_Witness ==
    /\ pc = "parse"
    /\ client.usage_tracker.tokens_this_minute > tokens_per_minute
    /\ client.usage_tracker.tokens_this_minute - EstimatedTokens(prompt_len) > 0

\* C28: process_emails_from_file returns the empty list, and sends nothing,
\* when the client has no API key (the file is not parsed then) and when the
\* file yields no record; whatever _process_all_emails_batch raises (
\* ValueError of an unsupported provider, the daily-limit exception, the
\* HTTPError of the transport, the KeyError of a malformed envelope, an error
\* of the parser) is caught, and the call returns the same empty list.
C28_FailuresReturnEmptyList ==
    [][/\ (pc = "idle" /\ ticks' = ticks /\ day_jumps' = day_jumps)
          => /\ MissingApiKey(client)
                  => (pc' = "idle" /\ returned' = PyList(<<>>) /\ emails' = <<>>
                      /\ http_requests' = 0)
             /\ (~MissingApiKey(client) /\ extracted_file.emails = <<>>)
                  => (pc' = "idle" /\ returned' = PyList(<<>>) /\ http_requests' = 0)
       /\ (pc = "raised")
          => (/\ error \in {"ValueError", "DailyLimit", "HTTPError", "KeyError",
                             "RecursionError"}
              /\ pc' = "idle" /\ returned' = PyList(<<>>))
       /\ (pc' = "idle" /\ error' # None) => returned' = PyList(<<>>)]_vars

\* C28 witness: the call of a client with a key has returned the empty list
\* after the transport raised.
C28_Witness ==
    /\ pc = "idle" /\ error = "HTTPError" /\ ~MissingApiKey(client)
    /\ returned = PyList(<<>>)

\* C28, the other failures: each has been caught (the daily limit is reached
\* in SpecDay, the others in Spec)
C28_WitnessUnsupported == pc = "idle" /\ error = "ValueError" /\ returned = PyList(<<>>)
C28_WitnessDailyLimit == pc = "idle" /\ error = "DailyLimit" /\ returned = PyList(<<>>)
C28_WitnessEnvelope == pc = "idle" /\ error = "KeyError" /\ returned = PyList(<<>>)
C28_WitnessNoKey ==
    pc = "idle" /\ MissingApiKey(client) /\ returned = PyList(<<>>) /\ http_requests = 0

\* C29: no step of a client lowers requests_today, and every call made
\* after a day has passed over a client that had reached requests_per_day
\* raises the daily-limit exception and sends nothing.
C29_NoDayRollover ==
    /\ [][client'.usage_tracker.requests_today >= client.usage_tracker.requests_today]_vars
    /\ [][(pc = "batch" /\ day_jumps > 0)
            => (/\ pc' = "raised" /\ error' = "DailyLimit"
                /\ http_requests' = 0
                /\ client'.usage_tracker.requests_today = requests_per_day)]_vars

\* C29 witness: a call made more than 24 hours after the limit was reached
\* has raised the daily-limit exception.
C29_Witness ==
    /\ day_jumps = 1
    /\ now >= ClockStart + day_seconds
    /\ pc = "raised" /\ error = "DailyLimit"
    /\ client.usage_tracker.requests_today = requests_per_day

\* the steps of the workflow in the order of main()
WorkflowOrder == <<"retrieve", "summarize", "display", "storytelling", "cleanup", "completed">>

\* C30: the steps of main() are announced in the order retrieve, summarize,
\* display, storytelling, cleanup; the summary step starts only after a
\* retrieval command that succeeded, with todays_emails_professional.json in
\* the directory; the report is displayed only after a summary command that
\* succeeded, with today_email_summary_report.txt in the directory; the
\* workflow stops only before the display, and once the display is done it
\* reaches its completion message whether the storytelling and cleanup
\* commands fail or not.
C30_WorkflowOrderAndGates ==
    /\ [](\E n \in 0..Len(WorkflowOrder) : console = SubSeq(WorkflowOrder, 1, n))
    /\ [][(Len(console) = 1 /\ Len(console') = 2)
            => (/\ "retrieve" \notin failed_commands
                /\ professional_emails_file \in files)]_vars
    /\ [][(Len(console) = 2 /\ Len(console') = 3)
            => (/\ failed_commands = {}
                /\ final_report \in files)]_vars
    /\ [](main_pc = "stopped" => Len(console) <= 2)
    /\ (main_pc = "step4") ~> (main_pc = "completed" /\ console = WorkflowOrder)

\* C30 witness: the workflow has completed after the storytelling command and
\* the cleanup command both failed.
C30_Witness ==
    /\ main_pc = "completed"
    /\ console = WorkflowOrder
    /\ failed_commands = {"storytelling", "cleanup"}
====
